---- MODULE Spec2Model ----
(***************************************************************************)
(* Verification model of the mathcompete-ai problem pipeline.              *)
(*                                                                         *)
(*   Spec       the batch harvester, processPrefetchQueue                  *)
(*              (services/prefetchService, src/unnamed/part_001)           *)
(*   SpecFetch  the problem assembler, fetchAoPSProblem                    *)
(*              (src/mathcompete-ai/services/geminiService.ts)             *)
(*                                                                         *)
(* JavaScript runs a handler to its next await without interleaving, so    *)
(* the caller's code (which owns stopSignal) runs only while the harvester *)
(* is suspended in an await, or inside the onProgress callback it is       *)
(* handed.                                                                 *)
(***************************************************************************)
EXTENDS Integers, Sequences, FiniteSets, TLC

\* ---------------------------------------------------------------- bounds

\* Longest queue handed to processPrefetchQueue.
MaxQueue == 5

\* Most element children of a page's content root.
MaxSiblings == 4

\* Most paragraphs of a solution whose answer is looked for.
MaxAnswerParas == 3

\* Number of different values Math.random() yields in generateTestQueue.
MaxDraws == 11

\* Paragraphs of a markup handed to cleanAndRestoreLatex on its own.
MaxNodes == 4

\* The retries a caller of retryWithBackoff allows (3 is the default).
MaxRetries == 3

\* Characters of a response text, and of a string inside one.
MaxChars == 4

\* Problems a configuration asks for in all.
MaxTasks == 3

\* Calls of handleHint and handleChat in one run.
MaxCalls == 3
MaxShown == 2            \* problems of the exam that is shown
MaxSeconds == 2          \* totalSeconds of the countdown
MaxFinishes == 2         \* finishExam calls followed

\* ------------------------------------------------------------- variables

VARIABLES
    \* processPrefetchQueue: parameters and locals
    queue,          \* PrefetchTask[]            (part_001:89)
    stopSignal,     \* stopSignal.stop           (part_001:91)
    i,              \* loop index, 0-based       (part_001:96)
    success,        \* let success = 0           (part_001:93)
    failed,         \* let failed = 0            (part_001:94)
    pc,             \* position of the async function
    \* what the harvester's collaborators observe
    taskCalls,      \* the onProgress invocations made for queue[i], in order
    lastDone,       \* the last onProgress invocation made for queue[i-1]
    ncalls,         \* number of onProgress invocations so far
    fetched,        \* queue indexes handed to fetchAoPSProblem, in order
    inflight,       \* queue indexes whose fetch has not settled
    settled,        \* how many fetches settled with each outcome
    outcome,        \* how the fetch of queue[i] settled ("none" before)
    waits,          \* completed wait(800) calls
    halted,         \* the break of line 97 was taken
    \* what the caller did with the flag
    everSet,        \* the flag was true at some moment
    stopSet,        \* when the flag last became true
    clearedInFlight, \* the flag was cleared while a fetch was in flight
    \* fetchAoPSProblem: the page behind the url, and the locals
    doc,                 \* the document the url holds, as DOMParser reads it
    fpc,                 \* position of the async function
    contentDiv,          \* element children of .mw-parser-output (after the
                         \* removals of lines 162-167)
    curr,                \* index in contentDiv of curr, Len + 1 for null
    mode,                \* 'question' | 'solution' | 'done'
    questionAccumulator, \* markup, as the sequence of its pieces
    solutionAccumulator,
    questionData,        \* cleanAndRestoreLatex(questionAccumulator)
    solutionData,
    correctOption,
    thrown,              \* the error raised inside the try block, if any
    returnValue,         \* what the caller of fetchAoPSProblem gets
    \* what fetchAoPSProblem's collaborators answer and observe
    relay,               \* what each relay answers to a request for the url
    requests,            \* the relays fetchViaProxy requested, in order
    htmlLength,          \* length of the text handed to the parser (-1: none)
    aiCalls,             \* how each extractCorrectOptionWithAI call went
    \* generateFullCatalogQueue and generateTestQueue
    catalog,             \* the queue being built and the place in the loops
    indices,             \* Set<number> of picked indexes
    testQueue,           \* the tasks returned, by picked index
    tpc,                 \* position of generateTestQueue
    \* cleanAndRestoreLatex, applied to a markup and to its own output
    rawHtml,             \* the markup handed to the first application
    cleaned,             \* what each application returned, in order
    \* retryWithBackoff
    firstCall,           \* the retries and delay of the caller's call
    retries,             \* the parameters of the call that is running
    delay,
    rpc,                 \* position of the async function
    attempts,            \* how each call of fn settled, in order
    waited,              \* the delays of the completed wait calls, in order
    settledAs,           \* what the caller gets: a value or an error
    \* parseJsonFromResponse
    responseText,        \* response.text
    parsed,              \* what the function returned
    \* fetchMockProblem and generateAIProblem
    generator,           \* which of the two is called
    answered,            \* response.text
    requested,           \* the difficulty parameter of generateAIProblem
    produced,            \* the Problem returned, or the error raised
    \* generateExam and generateMiniQuiz
    entry,               \* which of the two is called
    urlPool,             \* the pages getAoPSUrlAndMeta can draw
    config,              \* realCount, mockCount, aiCount
    isWarmup,            \* mode === ExamMode.WARMUP
    apiKey,              \* process.env.API_KEY is set
    epc,                 \* position of the async function
    slot,                \* i of the loop that is running
    slotAttempts,        \* attempts
    slotProblem,         \* p of the archive slot: no Problem or one
    iterations,          \* passes of the while loop made for the slot
    generatedUrls,       \* Set<string>
    problems,            \* Problem[]
    completedTasks,
    graderAnswer,        \* what the grading request gave
    \* App
    stateProblems,       \* state.problems: id, hints and solutionChat of each
    calls,               \* the handleHint and handleChat calls that await
    issued,              \* handler calls made so far
    view,                \* state.view
    currentProblemIndex, \* state.currentProblemIndex
    examMode,            \* settings.mode
    timerMode,           \* settings.timerMode
    totalSeconds,        \* the totalSeconds the exam view passes to ExamTimer
    analyzing,           \* the analyzing state of App
    awaited,             \* finishExam calls that await analyzePerformance
    finishes,            \* finishExam calls made so far
    mounted,             \* the exam view is on screen (its render did not throw)
    selected,            \* ProblemCard: selected
    submittedInstant,    \* ProblemCard: submittedInstant
    skipped,             \* ProblemCard: skipped
    secondsLeft,         \* ExamTimer: secondsLeft
    interval,            \* ExamTimer: an interval of its effect is alive
    expired              \* onExpire invocations so far

hvars == <<queue, stopSignal, i, success, failed, pc, taskCalls, lastDone,
           ncalls, fetched, inflight, settled, outcome, waits, halted,
           everSet, stopSet, clearedInFlight>>

fvars == <<doc, fpc, contentDiv, curr, mode, questionAccumulator,
           solutionAccumulator, questionData, solutionData, correctOption,
           thrown, returnValue, relay, requests, htmlLength, aiCalls>>

cvars == <<catalog, indices, testQueue, tpc>>

nvars == <<rawHtml, cleaned>>

\* The variables of the operations that are followed on their own.
rvars == <<firstCall, retries, delay, rpc, attempts, waited, settledAs>>

jvars == <<responseText, parsed>>

gvars == <<generator, answered, requested, produced>>

evars == <<entry, urlPool, config, isWarmup, apiKey, epc, slot, slotAttempts, slotProblem,
           iterations, generatedUrls, problems, completedTasks,
           graderAnswer>>

\* The exam view: App's view state, the one ProblemCard and the ExamTimer.
uvars == <<view, currentProblemIndex, examMode, timerMode, totalSeconds,
           analyzing, awaited, finishes, mounted, selected, submittedInstant,
           skipped, secondsLeft, interval, expired>>

avars == <<stateProblems, calls, issued, uvars>>

ovars == <<nvars, rvars, jvars, gvars, evars, avars>>

vars == <<hvars, fvars, cvars, ovars>>


\* ------------------------------------------------------- catalog tasks

\* One PrefetchTask as addTask builds it.
Task(y, lvl, wikiName, display, idSuffix, n) ==
    [ url      |-> <<y, wikiName, n>>,
      id       |-> <<y, idSuffix, n>>,
      level    |-> lvl,
      year     |-> y,
      examType |-> display ]

\* Tasks the queues of the model are made of.
TaskPool ==
    << Task(2025, "AMC 8", "AMC_8", "AMC 8", "amc8", 25),
       Task(1998, "AMC 8", "AJHSME", "AJHSME", "amc8", 1),
       Task(2024, "AMC 10", "AMC_10A", "AMC 10A", "amc10a", 1) >>

\* The queues of the model: every length up to MaxQueue, the pool's tasks
\* taken in turn from any starting point (neighbours always differ in year
\* and exam).
Queues ==
    { [ k \in 1..n |-> TaskPool[((k + s) % Len(TaskPool)) + 1] ] :
        n \in 0..MaxQueue, s \in 0..(Len(TaskPool) - 1) }

\* ------------------------------------------------- processPrefetchQueue

\* queue[i] of the source (0-based) is queue[i + 1] here.
CurrentTask == queue[i + 1]

\* Mutant of Stats: total counts the tasks still to do.
StatsRemaining ==
    [ total       |-> Len(queue) - i,
      success     |-> success,
      failed      |-> failed,
      currentYear |-> CurrentTask.year,
      currentExam |-> CurrentTask.examType ]

\* The PrefetchStats literal built at every onProgress call.
Stats ==
    [ total       |-> Len(queue),
      success     |-> success,
      failed      |-> failed,
      currentYear |-> CurrentTask.year,
      currentExam |-> CurrentTask.examType ]

\* What fetchAoPSProblem resolves to on success, as far as the harvester
\* looks at it: a Problem carrying the task's id and url.
ProblemOf(task) == [ id |-> task.id, originalUrl |-> task.url ]

\* One onProgress(stats, log, result?) invocation.
Call(kind, logRef, result) ==
    [ stats |-> Stats, log |-> <<kind, logRef>>, result |-> result, at |-> i ]

\* The optional third argument: <<>> when it is left out, <<problem>> otherwise.
NoResult == <<>>

\* No invocation yet.
NoCall == [ stats |-> [ total |-> 0, success |-> 0, failed |-> 0, currentYear |-> 0,
                      currentExam |-> "" ],
            log |-> <<"none", 0>>, result |-> <<>>, at |-> -1 ]

\* The onProgress invocation is recorded: appended to the task's calls.
Reported(call) ==
    /\ taskCalls' = Append(taskCalls, call)
    /\ ncalls' = ncalls + 1
    /\ lastDone' = lastDone

\* How a fetch can settle: fetchAoPSProblem resolves to a Problem, resolves
\* to null, or the awaited promise rejects.
Outcomes == { "problem", "null", "raise" }

\* How the caller's onProgress callback can behave: it returns or throws,
\* and it may write the flag it shares with the harvester.
Callbacks == [ raises : BOOLEAN, stop : BOOLEAN ]

\* Book-keeping of a write of stopSignal.stop made while iteration i runs.
FlagWrite(v) ==
    /\ stopSignal' = v
    /\ everSet' = (everSet \/ v)
    /\ stopSet' = IF v /\ ~stopSignal THEN [ tasks |-> i + 1, at |-> pc ]
                  ELSE stopSet
    /\ clearedInFlight' =
          (clearedInFlight \/ (stopSignal /\ ~v /\ inflight # {}))

FlagKept == UNCHANGED <<stopSignal, everSet, stopSet, clearedInFlight>>

HarvestInit ==
    /\ queue \in Queues
    /\ stopSignal \in BOOLEAN
    /\ i = 0
    /\ success = 0
    /\ failed = 0
    /\ pc = "loop"
    /\ taskCalls = <<>>
    /\ lastDone = NoCall
    /\ ncalls = 0
    /\ fetched = <<>>
    /\ inflight = {}
    /\ settled = [ o \in Outcomes |-> 0 ]
    /\ outcome = "none"
    /\ waits = 0
    /\ halted = FALSE
    /\ everSet = stopSignal
    /\ stopSet = [ tasks |-> 0, at |-> "start" ]
    /\ clearedInFlight = FALSE

\* Mutant of LoopCheck: the flag is not looked at.
LoopCheckIgnoresStop ==
    /\ pc = "loop"
    /\ pc' = IF i >= Len(queue) THEN "done" ELSE "pre"
    /\ UNCHANGED <<queue, i, success, failed, taskCalls, lastDone, ncalls,
                   fetched, inflight, settled, outcome, waits, halted>>
    /\ FlagKept
    /\ UNCHANGED <<fvars, cvars, ovars>>

\* for (...; i < queue.length; ...) { if (stopSignal.stop) break;
LoopCheck ==
    /\ pc = "loop"
    /\ IF i >= Len(queue)
         THEN pc' = "done" /\ halted' = halted
         ELSE IF stopSignal
                THEN pc' = "done" /\ halted' = TRUE
                ELSE pc' = "pre" /\ halted' = halted
    /\ UNCHANGED <<queue, i, success, failed, taskCalls, lastDone, ncalls,
                   fetched, inflight, settled, outcome, waits>>
    /\ FlagKept
    /\ UNCHANGED <<fvars, cvars, ovars>>

\* onProgress({...}, `Fetching [i+1/n]: ...`), then the fetch is started. A
\* callback that throws here is outside the try: the run is rejected.
PreReport ==
    /\ pc = "pre"
    /\ \E cb \in Callbacks :
         /\ Reported(Call("Fetching", i + 1, NoResult))
         /\ FlagWrite(cb.stop)
         /\ IF cb.raises
              THEN pc' = "aborted" /\ UNCHANGED <<fetched, inflight>>
              ELSE /\ pc' = "fetching"
                   /\ fetched' = Append(fetched, i)
                   /\ inflight' = inflight \cup {i}
    /\ UNCHANGED <<queue, i, success, failed, settled, outcome, waits,
                   halted>>
    /\ UNCHANGED <<fvars, cvars, ovars>>

\* Mutant of FetchSettles: a result that arrives with the flag set is dropped.
FetchSettlesDiscardsWhenStopped ==
    /\ pc = "fetching"
    /\ \E o \in Outcomes :
         /\ settled' = [ settled EXCEPT ![o] = @ + 1 ]
         /\ outcome' = o
         /\ inflight' = inflight \ {i}
         /\ IF stopSignal
              THEN success' = success /\ failed' = failed /\ pc' = "waiting"
              ELSE CASE o = "problem" ->
                        success' = success + 1 /\ failed' = failed /\ pc' = "success"
                     [] o = "null" ->
                        failed' = failed + 1 /\ success' = success /\ pc' = "nodata"
                     [] o = "raise" ->
                        failed' = failed + 1 /\ success' = success /\ pc' = "catch"
    /\ UNCHANGED <<queue, i, taskCalls, lastDone, ncalls, fetched, waits,
                   halted>>
    /\ FlagKept
    /\ UNCHANGED <<fvars, cvars, ovars>>

\* await fetchAoPSProblem(...) settles; the counter of its branch is bumped.
FetchSettles ==
    /\ pc = "fetching"
    /\ \E o \in Outcomes :
         /\ settled' = [ settled EXCEPT ![o] = @ + 1 ]
         /\ outcome' = o
         /\ inflight' = inflight \ {i}
         /\ CASE o = "problem" ->
                   success' = success + 1 /\ failed' = failed /\ pc' = "success"
              [] o = "null" ->
                   failed' = failed + 1 /\ success' = success /\ pc' = "nodata"
              [] o = "raise" ->
                   failed' = failed + 1 /\ success' = success /\ pc' = "catch"
    /\ UNCHANGED <<queue, i, taskCalls, lastDone, ncalls, fetched, waits,
                   halted>>
    /\ FlagKept
    /\ UNCHANGED <<fvars, cvars, ovars>>

\* A report made inside the try block: a callback that throws lands in the
\* catch clause, which counts a failure.
ReportInTry(kind, result) ==
    \E cb \in Callbacks :
       /\ Reported(Call(kind, CurrentTask.id, result))
       /\ FlagWrite(cb.stop)
       /\ IF cb.raises
            THEN failed' = failed + 1 /\ pc' = "catch"
            ELSE failed' = failed /\ pc' = "waiting"
       /\ UNCHANGED <<queue, i, success, fetched, inflight, settled, outcome,
                      waits, halted>>

\* onProgress({...}, `SUCCESS: id`, problem)
ReportSuccess ==
    /\ pc = "success"
    /\ ReportInTry("SUCCESS", <<ProblemOf(CurrentTask)>>)
    /\ UNCHANGED <<fvars, cvars, ovars>>

\* Mutant of ReportNoData: a task without data goes on to the next task at
\* once, without the pacing delay.
ReportNoDataSkipsWait ==
    /\ pc = "nodata"
    /\ \E cb \in Callbacks :
         /\ taskCalls' = <<>>
         /\ lastDone' = Call("FAILED", CurrentTask.id, NoResult)
         /\ ncalls' = ncalls + 1
         /\ FlagWrite(cb.stop)
         /\ IF cb.raises
              THEN failed' = failed + 1 /\ pc' = "aborted" /\ i' = i
              ELSE failed' = failed /\ pc' = "loop" /\ i' = i + 1
         /\ outcome' = "none"
    /\ UNCHANGED <<queue, success, fetched, inflight, settled, waits, halted>>
    /\ UNCHANGED <<fvars, cvars, ovars>>

\* onProgress({...}, `FAILED: id (No data returned)`)
ReportNoData ==
    /\ pc = "nodata"
    /\ ReportInTry("FAILED", NoResult)
    /\ UNCHANGED <<fvars, cvars, ovars>>

\* catch (e) { ...; onProgress({...}, `ERROR: id - message`) }: a callback
\* that throws here is outside any try.
ReportError ==
    /\ pc = "catch"
    /\ \E cb \in Callbacks :
         /\ Reported(Call("ERROR", CurrentTask.id, NoResult))
         /\ FlagWrite(cb.stop)
         /\ pc' = IF cb.raises THEN "aborted" ELSE "waiting"
    /\ UNCHANGED <<queue, i, success, failed, fetched, inflight, settled,
                   outcome, waits, halted>>
    /\ UNCHANGED <<fvars, cvars, ovars>>

\* Mutant of WaitElapses: the index moves on by two.
WaitElapsesSkipsTask ==
    /\ pc = "waiting"
    /\ waits' = waits + 1
    /\ i' = i + 2
    /\ pc' = "loop"
    /\ lastDone' = taskCalls[Len(taskCalls)]
    /\ taskCalls' = <<>>
    /\ outcome' = "none"
    /\ UNCHANGED <<queue, success, failed, ncalls, fetched, inflight, settled,
                   halted>>
    /\ FlagKept
    /\ UNCHANGED <<fvars, cvars, ovars>>

\* await wait(800) completes, i++
WaitElapses ==
    /\ pc = "waiting"
    /\ waits' = waits + 1
    /\ i' = i + 1
    /\ pc' = "loop"
    /\ lastDone' = taskCalls[Len(taskCalls)]
    /\ taskCalls' = <<>>
    /\ outcome' = "none"
    /\ UNCHANGED <<queue, success, failed, ncalls, fetched, inflight, settled,
                   halted>>
    /\ FlagKept
    /\ UNCHANGED <<fvars, cvars, ovars>>

\* The caller writes the flag while the harvester is suspended in an await.
CallerWritesFlag ==
    /\ pc \in { "fetching", "waiting" }
    /\ FlagWrite(~stopSignal)
    /\ UNCHANGED <<queue, i, success, failed, pc, taskCalls, lastDone,
                   ncalls, fetched, inflight, settled, outcome, waits,
                   halted>>
    /\ UNCHANGED <<fvars, cvars, ovars>>

Next ==
    \/ LoopCheck
    \/ PreReport
    \/ FetchSettles
    \/ ReportSuccess
    \/ ReportNoData
    \/ ReportError
    \/ WaitElapses
    \/ CallerWritesFlag

\* ------------------------------------------------------- markup values

\* Strings the code searches are sequences of tokens; SP is white space.
SP == " "

\* s.includes(w)
Includes(s, w) ==
    \E k \in 0..(Len(s) - Len(w)) : SubSeq(s, k + 1, k + Len(w)) = w

\* s.startsWith(w)
StartsWith(s, w) == Len(s) >= Len(w) /\ SubSeq(s, 1, Len(w)) = w

\* s.trim()
RECURSIVE Trim(_)
Trim(s) ==
    IF s = <<>> THEN s
    ELSE IF Head(s) = SP THEN Trim(Tail(s))
    ELSE IF s[Len(s)] = SP THEN Trim(SubSeq(s, 1, Len(s) - 1))
    ELSE s

RECURSIVE Flatten(_)
Flatten(ss) == IF ss = <<>> THEN <<>> ELSE Head(ss) \o Flatten(Tail(ss))

\* An img, a or span inside an element: src holds an img's src or an a's
\* href, alt an img's alt or a span's text.
Inline(kind, cls, alt, src) ==
    [ kind |-> kind, cls |-> cls, alt |-> alt, src |-> src, target |-> "" ]

\* An element: its tag, class, id, the id of the .mw-headline span inside it,
\* its own text, the img/a/span elements inside it and its element
\* children; n is the place of a page's element among its siblings, the one
\* thing that tells two paragraphs of a page apart (0 for made-up markup).
Element(tag, cls, id, headline, text, body) ==
    [ tag |-> tag, cls |-> cls, id |-> id, headline |-> headline,
      text |-> text, body |-> body, kids |-> <<>>, n |-> 0 ]

\* The kinds of element a wiki page of the model is made of.
Para ==
    Element("P", "", <<>>, <<>>, <<"How", SP, "many", SP, "ways?">>,
            << Inline("img", "", <<"figure">>, <<"/", "wiki/images/fig.png">>),
               Inline("a", "", <<>>, <<"/", "wiki/index.php/Triangle">>) >>)

ParaBoxed ==
    Element("P", "", <<>>, <<>>, <<"Thus", SP, "we", SP, "get">>,
            << Inline("img", "latex", <<"$", "\\boxed{\\textbf{(C)}}", "$">>,
                      <<"//", "latex.artofproblemsolving.com/c.png">>) >>)

H2Problem ==
    Element("H2", "", <<>>, <<"Problem">>, <<"Problem">>, <<>>)

H2Solution ==
    Element("H2", "", <<>>, <<"Solution", "_", "1">>,
            <<SP, "Solution", SP, "1", SP>>, <<>>)

H2SolutionId ==
    Element("H2", "", <<"Video", "_", "Solution">>, <<>>,
            <<"Walkthrough">>, <<>>)

H2SeeAlso ==
    Element("H2", "", <<>>, <<"See", "_", "also">>, <<"See", SP, "also">>, <<>>)

H2SeeAlsoCaps ==
    Element("H2", "", <<>>, <<"See", "_", "Also">>, <<"See", SP, "Also">>, <<>>)

H2Other ==
    Element("H2", "", <<>>, <<"Notes">>, <<"Notes">>, <<>>)

H3Solution ==
    Element("H3", "", <<>>, <<"Solution", "_", "2">>,
            <<"Solution", SP, "2">>, <<>>)

Toc ==
    Element("DIV", "toc", <<"toc">>, <<>>, <<"Contents">>, <<>>)

\* Paragraphs of a solution: an answer boxed without \textbf, an answer in
\* prose, and prose that only reads like one.
ParaBoxedPlain ==
    Element("P", "", <<>>, <<>>, <<"Hence">>,
            << Inline("img", "latex", <<"$", "\\boxed{(B)}", "$">>,
                      <<"//", "latex.artofproblemsolving.com/b.png">>) >>)

ParaProse ==
    Element("P", "", <<>>, <<>>, <<"The", SP, "answer is (D)", ".">>, <<>>)

ParaProseLower ==
    Element("P", "", <<>>, <<>>,
            <<"so", SP, "the", SP, "answer is always", SP, "positive">>, <<>>)

\* Paragraphs of a question whose references are relative to the page, or
\* absolute already.
ParaRelative ==
    Element("P", "", <<>>, <<>>, <<"In", SP, "the", SP, "figure">>,
            << Inline("img", "", <<"figure">>, <<"images/fig2.png">>),
               Inline("a", "", <<>>, <<"Triangle_inequality">>) >>)

ParaAbsolute ==
    Element("P", "", <<>>, <<>>, <<"As", SP, "shown">>,
            << Inline("img", "", <<"figure">>,
                      <<"https:", "//", "wiki-images.artofproblemsolving.com/f.png">>),
               Inline("a", "", <<>>, <<"//", "en.wikipedia.org/wiki/Triangle">>) >>)

\* A paragraph with an [asy] diagram, which keeps its img, and one whose
\* references are fully qualified already.
ParaAsy ==
    Element("P", "", <<>>, <<>>, <<"The", SP, "diagram">>,
            << Inline("img", "latexcenter", <<SP, "[asy]", "draw((0,0)--(1,1));">>,
                      <<"//", "latex.artofproblemsolving.com/d.png">>) >>)

ParaQualified ==
    Element("P", "", <<>>, <<>>, <<"See", SP, "the", SP, "figure">>,
            << Inline("img", "", <<"figure">>,
                      <<"https:", "//", "wiki-images.artofproblemsolving.com/f.png">>),
               Inline("a", "", <<>>,
                      <<"https:", "//", "artofproblemsolving.com", "/",
                        "wiki/index.php/Circle">>) >>)

Kinds ==
    { Para, ParaBoxed, H2Problem, H2Solution, H2SolutionId, H2SeeAlso,
      H2SeeAlsoCaps, H2Other, H3Solution, Toc }

\* The element children of a page's content root, numbered in place.
Numbered(p) == [ k \in DOMAIN p |-> [ p[k] EXCEPT !.n = k ] ]

\* The documents a url can hold: one without .mw-parser-output, and every
\* content root of up to m element children.
DocsUpTo(m) ==
    { [ content |-> FALSE, children |-> <<>> ] } \cup
    { [ content |-> TRUE, children |-> Numbered(p) ] :
        p \in UNION { [ 1..n -> Kinds ] : n \in 0..m } }

Docs == DocsUpTo(MaxSiblings)

\* Pages made of a one-paragraph question, a Solution heading and a solution
\* of up to MaxAnswerParas paragraphs.
QuestionKinds == { Para, ParaRelative, ParaAbsolute }

AnswerKinds == { Para, ParaBoxed, ParaBoxedPlain, ParaProse, ParaProseLower }

SolvedDocs ==
    { [ content |-> TRUE, children |-> Numbered(<<q, H2Solution>> \o s) ] :
        q \in QuestionKinds,
        s \in UNION { [ 1..n -> AnswerKinds ] : n \in 0..MaxAnswerParas } }

\* --------------------------------------------------------- fetchViaProxy

\* text.length < 100
MinBodyLength == 100

\* The lengths a relayed body can have.
BodyLengths == { 0, MinBodyLength - 1, MinBodyLength }

\* What a relay answers: the request fails, the status is not OK, or a body
\* comes back (for backup, a JSON object whose contents has that length; no
\* contents at all reads as length 0).
Response(kind, len) == [ kind |-> kind, len |-> len ]

PrimaryResponses ==
    { Response("networkError", 0), Response("httpError", 0) } \cup
    { Response("ok", n) : n \in BodyLengths }

BackupResponses ==
    { Response("networkError", 0), Response("httpError", 0) } \cup
    { Response("ok", n) : n \in BodyLengths }

\* Mutant of FetchViaProxy: primary's body is taken whatever its length.
FetchViaProxyAnyLength(primary, backup) ==
    IF primary.kind = "ok" /\ primary.len # 0
      THEN [ ok |-> TRUE, text |-> primary.len, requests |-> <<"primary">> ]
    ELSE IF backup.kind = "ok" /\ backup.len # 0
      THEN [ ok |-> TRUE, text |-> backup.len,
             requests |-> <<"primary", "backup">> ]
    ELSE [ ok |-> FALSE, text |-> -1, requests |-> <<"primary", "backup">> ]

\* Mutant of FetchViaProxy: backup is asked first and primary after it.
FetchViaProxyBackupFirst(primary, backup) ==
    IF backup.kind = "ok" /\ backup.len # 0
      THEN [ ok |-> TRUE, text |-> backup.len, requests |-> <<"backup">> ]
    ELSE IF primary.kind = "ok" /\ primary.len >= MinBodyLength
      THEN [ ok |-> TRUE, text |-> primary.len,
             requests |-> <<"backup", "primary">> ]
    ELSE [ ok |-> FALSE, text |-> -1, requests |-> <<"backup", "primary">> ]

\* fetchViaProxy(url), retries = 1: the length of the text it returns, or
\* the failure it throws, and the requests it made.
FetchViaProxy(primary, backup) ==
    IF /\ primary.kind = "ok"
       /\ primary.len # 0
       /\ ~(primary.len < MinBodyLength)
      THEN [ ok |-> TRUE, text |-> primary.len, requests |-> <<"primary">> ]
    ELSE IF backup.kind = "ok" /\ backup.len # 0
      THEN [ ok |-> TRUE, text |-> backup.len,
             requests |-> <<"primary", "backup">> ]
    ELSE [ ok |-> FALSE, text |-> -1, requests |-> <<"primary", "backup">> ]

\* Every pair of answers, and the two a page walk is followed under: both
\* relays serve the page, or both are down.
Relays == [ primary : PrimaryResponses, backup : BackupResponses ]

RelaysUpOrDown ==
    { [ primary |-> Response("ok", MinBodyLength),
        backup  |-> Response("ok", MinBodyLength) ],
      [ primary |-> Response("networkError", 0),
        backup  |-> Response("networkError", 0) ] }

\* ---------------------------------------------------- cleanAndRestoreLatex

Host == <<"https:", "//", "artofproblemsolving.com">>

\* latexImages.forEach: an img.latex / img.latexcenter with an alt that is
\* no [asy] diagram becomes a span holding " alt ".
RestoreLatex(node) ==
    IF /\ node.kind = "img"
       /\ node.cls \in { "latex", "latexcenter" }
       /\ node.alt # <<>>
       /\ ~StartsWith(Trim(node.alt), <<"[asy]">>)
      THEN Inline("span", "", <<SP>> \o node.alt \o <<SP>>, <<>>)
      ELSE node

\* contentImages.forEach: the src of an img made absolute.
AbsoluteSrc(src) ==
    IF StartsWith(src, <<"//">>) THEN <<"https:">> \o src
    ELSE IF StartsWith(src, <<"/">>) THEN Host \o src
    ELSE src

\* links.forEach: a root-relative href made absolute, opened in a new tab.
RewriteNode(node) ==
    IF node.kind = "img" /\ node.src # <<>>
      THEN [ node EXCEPT !.src = AbsoluteSrc(node.src) ]
    ELSE IF node.kind = "a" /\ node.src # <<>> /\ StartsWith(node.src, <<"/">>)
      THEN [ node EXCEPT !.src = Host \o node.src, !.target = "_blank" ]
    ELSE node

\* querySelectorAll reaches the elements at every depth.
RECURSIVE CleanElement(_)
CleanElement(el) ==
    [ el EXCEPT !.body = [ k \in DOMAIN el.body |->
                             RewriteNode(RestoreLatex(el.body[k])) ],
                !.kids = [ k \in DOMAIN el.kids |->
                             CleanElement(el.kids[k]) ] ]

\* The src of every img of a markup that has one, in document order.
RECURSIVE ImageSources(_)
ImageSources(html) ==
    Flatten([ k \in DOMAIN html |->
       LET imgs == SelectSeq(html[k].body,
                             LAMBDA nd : nd.kind = "img" /\ nd.src # <<>>)
       IN  [ j \in DOMAIN imgs |-> imgs[j].src ]
             \o ImageSources(html[k].kids) ])

\* images.push(src) without the includes test
RECURSIVE DedupeNever(_, _)
DedupeNever(srcs, seen) == seen \o srcs

\* if (!images.includes(src)) images.push(src)
RECURSIVE Dedupe(_, _)
Dedupe(srcs, seen) ==
    IF srcs = <<>> THEN seen
    ELSE Dedupe(Tail(srcs),
                IF \E k \in DOMAIN seen : seen[k] = Head(srcs)
                  THEN seen ELSE Append(seen, Head(srcs)))

\* The wrapper `<div>${rawHtml}</div>` that doc.body.innerHTML gives back.
Div(kids) ==
    [ tag |-> "DIV", cls |-> "", id |-> <<>>, headline |-> <<>>,
      text |-> <<>>, body |-> <<>>, kids |-> kids, n |-> 0 ]

cleanAndRestoreLatex(raw) ==
    LET body == [ k \in DOMAIN raw |-> CleanElement(raw[k]) ]
    IN  [ html |-> << Div(body) >>,
          images |-> Dedupe(ImageSources(body), <<>>) ]

\* The markups handed to cleanAndRestoreLatex: up to MaxNodes paragraphs.
CleanKinds ==
    { Para, ParaBoxed, ParaAsy, ParaRelative, ParaAbsolute, ParaQualified }

Markups == UNION { [ 1..n -> CleanKinds ] : n \in 0..MaxNodes }

CleanCall ==
    /\ rawHtml \in Markups
    /\ cleaned = <<>>

\* cleanAndRestoreLatex(rawHtml)
CleanFirst ==
    /\ cleaned = <<>>
    /\ cleaned' = << cleanAndRestoreLatex(rawHtml) >>
    /\ UNCHANGED rawHtml
    /\ UNCHANGED <<hvars, fvars, cvars, rvars, jvars, gvars, evars, avars>>

\* cleanAndRestoreLatex(first.html): the function applied to its own output
CleanAgain ==
    /\ Len(cleaned) = 1
    /\ cleaned' = Append(cleaned, cleanAndRestoreLatex(cleaned[1].html))
    /\ UNCHANGED rawHtml
    /\ UNCHANGED <<hvars, fvars, cvars, rvars, jvars, gvars, evars, avars>>

NextClean ==
    \/ CleanFirst
    \/ CleanAgain

NormalizerIdle ==
    /\ rawHtml = <<>>
    /\ cleaned = <<>>

\* ------------------------------------------------------ answer extraction

\* The letter the boxed-answer patterns capture in a token, "" for none:
\* /\\boxed\s*\{\s*\\?textbf\s*\{\s*\(?\s*([A-E])\s*\)?\s*\}\s*\}/i, then
\* /\\boxed\s*\{\s*\(?\s*([A-E])\s*\)?\s*\}/i.
BoxedTextbf(tok) == IF tok = "\\boxed{\\textbf{(C)}}" THEN "C" ELSE ""
BoxedPlain(tok) == IF tok = "\\boxed{(B)}" THEN "B" ELSE ""

\* /answer is\s*\(?([A-E])\)?/i: the class [A-E] under the i flag takes a
\* lower-case letter too, as the a of "answer is always".
ProseAnswer(tok) ==
    CASE tok = "answer is (D)" -> "D"
      [] tok = "answer is always" -> "a"
      [] OTHER -> ""

\* The html as the patterns read it: with its tags (attribute values
\* included) or with every <...> removed.
RECURSIVE HtmlTokens(_, _)
HtmlTokens(html, withTags) ==
    Flatten([ k \in DOMAIN html |->
        html[k].text
        \o Flatten([ j \in DOMAIN html[k].body |->
              IF withTags \/ html[k].body[j].kind = "span"
                THEN html[k].body[j].alt ELSE <<>> ])
        \o HtmlTokens(html[k].kids, withTags) ])

\* The first capture among the captures of a token stream, "" when no token
\* matched.
FirstMatch(captures) ==
    LET hits == SelectSeq(captures, LAMBDA c : c # "")
    IN  IF hits = <<>> THEN "" ELSE hits[1]

\* Mutant of RegexAnswer: the prose pattern is tried before the boxed ones.
RegexAnswerProseFirst(html) ==
    LET tagged == HtmlTokens(html, TRUE)
        plain == HtmlTokens(html, FALSE)
        prose == FirstMatch([ k \in DOMAIN plain |-> ProseAnswer(plain[k]) ])
        textbf == FirstMatch([ k \in DOMAIN tagged |-> BoxedTextbf(tagged[k]) ])
    IN  IF prose # "" THEN prose
        ELSE IF textbf # "" THEN textbf
        ELSE FirstMatch([ k \in DOMAIN tagged |-> BoxedPlain(tagged[k]) ])

\* Lines 220-230: the boxed patterns on the html, else the prose pattern on
\* the text.
RegexAnswer(html) ==
    LET tagged == HtmlTokens(html, TRUE)
        plain == HtmlTokens(html, FALSE)
        textbf == FirstMatch([ k \in DOMAIN tagged |-> BoxedTextbf(tagged[k]) ])
        boxed == IF textbf # "" THEN textbf
                 ELSE FirstMatch([ k \in DOMAIN tagged |-> BoxedPlain(tagged[k]) ])
    IN  IF boxed # "" THEN boxed
        ELSE FirstMatch([ k \in DOMAIN plain |-> ProseAnswer(plain[k]) ])

\* What the model can answer, character by character (<<>>: no text).
AiReplies == { <<"C">>, <<"X">>, <<"b">>, <<>>, <<SP, "(", "D", ")">> }

ToUpperCase(ch) ==
    CASE ch = "a" -> "A" [] ch = "b" -> "B" [] ch = "c" -> "C"
      [] ch = "d" -> "D" [] ch = "e" -> "E" [] ch = "x" -> "X"
      [] OTHER -> ch

\* response.text?.trim().toUpperCase().replace(/[^A-E]/g, '') || "", then
\* its first character.
AiLetter(reply) ==
    LET upper == [ k \in DOMAIN Trim(reply) |-> ToUpperCase(Trim(reply)[k]) ]
        kept == SelectSeq(upper, LAMBDA ch : ch \in { "A", "B", "C", "D", "E" })
    IN  IF kept = <<>> THEN "" ELSE kept[1]

\* How extractCorrectOptionWithAI can go: getAiClient throws (no API key),
\* the call throws, or the model replies.
AiOutcomes ==
    { [ kind |-> "noClient", reply |-> <<>> ],
      [ kind |-> "callFails", reply |-> <<>> ] } \cup
    { [ kind |-> "reply", reply |-> r ] : r \in AiReplies }

\* ------------------------------------------------------ fetchAoPSProblem

\* The call the model follows: fetchAoPSProblem(url, id, level).
FetchTask == TaskPool[1]

NoError == "none"

Pending == [ kind |-> "pending" ]
NullResult == [ kind |-> "null" ]
Raised(err) == [ kind |-> "raised", error |-> err ]

\* contentDiv.querySelectorAll('.toc, #toc') and the dl notices
Removed(el) ==
    \/ el.cls = "toc"
    \/ el.id = <<"toc">>
    \/ /\ el.tag = "DL"
       /\ \/ Includes(el.text, <<"following problem is from">>)
          \/ Includes(el.text, <<"redirects to this page">>)

\* h.id === 'Problem' || h.textContent?.trim() === 'Problem' ||
\* h.querySelector('#Problem')
IsProblemHeader(el) ==
    /\ el.tag = "H2"
    /\ \/ el.id = <<"Problem">>
       \/ Trim(el.text) = <<"Problem">>
       \/ el.headline = <<"Problem">>

\* Mutant of StartIndex: the walk starts at the Problem heading itself.
StartIndexAtHeader(children) ==
    LET hs == { k \in DOMAIN children : IsProblemHeader(children[k]) }
    IN  IF hs # {} THEN CHOOSE k \in hs : \A j \in hs : k <= j ELSE 1

\* The index curr starts at: the sibling after the first Problem heading,
\* else the first child (Len + 1 stands for null).
StartIndex(children) ==
    LET hs == { k \in DOMAIN children : IsProblemHeader(children[k]) }
    IN  IF hs # {} THEN (CHOOSE k \in hs : \A j \in hs : k <= j) + 1 ELSE 1

\* curr.id || curr.querySelector('.mw-headline')?.id || ""
IdOf(el) == IF el.id # <<>> THEN el.id ELSE el.headline

\* text.includes("Solution") || id.includes("Solution") ||
\* text.includes("Video Solution")
SolutionTrigger(el) ==
    \/ Includes(el.text, <<"Solution">>)
    \/ Includes(IdOf(el), <<"Solution">>)
    \/ Includes(el.text, <<"Video", SP, "Solution">>)

\* Mutant of SeeAlsoTrigger: only the spelling "See also" is known.
SeeAlsoTriggerOneSpelling(el) ==
    Includes(el.text, <<"See", SP, "also">>)

\* text.includes("See also") || text.includes("See Also") ||
\* id.includes("See_Also")
SeeAlsoTrigger(el) ==
    \/ Includes(el.text, <<"See", SP, "also">>)
    \/ Includes(el.text, <<"See", SP, "Also">>)
    \/ Includes(IdOf(el), <<"See", "_", "Also">>)

\* `<h3 class="font-bold ...">${h3Title}</h3>`
SynthH3(title) ==
    Element("H3", "font-bold text-lg mt-6 mb-3 text-slate-800 border-b border-slate-200 pb-2",
            <<>>, <<>>, title, <<>>)

\* Mutant of SolutionHeadingMarkup: the heading itself is kept as well.
SolutionHeadingMarkupKeepsH2(el) == << SynthH3(Trim(el.text)), el >>

\* What a Solution heading adds to the solution accumulator.
SolutionHeadingMarkup(el) == << SynthH3(Trim(el.text)) >>

\* Mutant of NoQuestionContent: the check is left out.
NoQuestionContentUnchecked(acc) == FALSE

\* !questionAccumulator.trim()
NoQuestionContent(acc) == acc = <<>>

\* "<p>Solution parsing failed.</p>"
Placeholder ==
    Element("P", "", <<>>, <<>>,
            <<"Solution", SP, "parsing", SP, "failed.">>, <<>>)

\* solutionAccumulator || "<p>Solution parsing failed.</p>"
SolutionMarkup(acc) == IF acc = <<>> THEN << Placeholder >> ELSE acc

\* Mutant of Caught: an unparseable page is passed on to the caller.
CaughtUnlessNoQuestion(err) ==
    IF err = "No question content found" THEN Raised(err) ELSE NullResult

\* catch (e) { console.warn(...); return null; }
Caught(err) == NullResult

FetchCall(docs, relays) ==
    /\ doc \in docs
    /\ relay \in relays
    /\ requests = <<>>
    /\ htmlLength = -1
    /\ aiCalls = <<>>
    /\ fpc = "start"
    /\ contentDiv = <<>>
    /\ curr = 0
    /\ mode = "unset"
    /\ questionAccumulator = <<>>
    /\ solutionAccumulator = <<>>
    /\ questionData = [ html |-> <<>>, images |-> <<>> ]
    /\ solutionData = [ html |-> <<>>, images |-> <<>> ]
    /\ correctOption = ""
    /\ thrown = NoError
    /\ returnValue = Pending

\* const html = await fetchViaProxy(url)
FetchPage ==
    /\ fpc = "start"
    /\ LET got == FetchViaProxy(relay.primary, relay.backup)
       IN  /\ requests' = got.requests
           /\ htmlLength' = got.text
           /\ IF got.ok
                THEN fpc' = "parse" /\ thrown' = thrown
                ELSE fpc' = "thrown" /\ thrown' = "Both proxies failed"
    /\ UNCHANGED <<doc, contentDiv, curr, mode, questionAccumulator,
                   solutionAccumulator, questionData, solutionData,
                   correctOption, returnValue, relay, aiCalls>>
    /\ UNCHANGED <<hvars, cvars, ovars>>

\* Lines 156-183: the content root is looked up and tidied, curr and mode
\* are set for the walk.
FindContent ==
    /\ fpc = "parse"
    /\ IF ~doc.content
         THEN /\ fpc' = "thrown"
              /\ thrown' = "Could not find content (.mw-parser-output)"
              /\ UNCHANGED <<contentDiv, curr, mode>>
         ELSE LET children == SelectSeq(doc.children, LAMBDA e : ~Removed(e))
              IN  /\ contentDiv' = children
                  /\ curr' = StartIndex(children)
                  /\ mode' = "question"
                  /\ fpc' = "walk"
                  /\ thrown' = thrown
    /\ UNCHANGED <<doc, questionAccumulator, solutionAccumulator,
                   questionData, solutionData, correctOption, returnValue>>
    /\ UNCHANGED <<hvars, cvars, ovars>>
    /\ UNCHANGED <<relay, requests, htmlLength, aiCalls>>

\* One turn of while (curr) { ... }, or its end when curr is null.
WalkStep ==
    /\ fpc = "walk"
    /\ IF curr > Len(contentDiv)
         THEN /\ fpc' = "walked"
              /\ UNCHANGED <<curr, mode, questionAccumulator,
                             solutionAccumulator>>
         ELSE LET el == contentDiv[curr] IN
              IF el.tag = "H2" /\ SolutionTrigger(el)
                THEN /\ mode' = "solution"
                     /\ solutionAccumulator' =
                           solutionAccumulator \o SolutionHeadingMarkup(el)
                     /\ curr' = curr + 1
                     /\ UNCHANGED <<fpc, questionAccumulator>>
              ELSE IF el.tag = "H2" /\ SeeAlsoTrigger(el)
                THEN /\ mode' = "done"
                     /\ fpc' = "walked"
                     /\ UNCHANGED <<curr, questionAccumulator,
                                    solutionAccumulator>>
              ELSE /\ questionAccumulator' =
                        IF mode = "question"
                          THEN Append(questionAccumulator, el)
                          ELSE questionAccumulator
                   /\ solutionAccumulator' =
                        IF mode = "solution"
                          THEN Append(solutionAccumulator, el)
                          ELSE solutionAccumulator
                   /\ curr' = curr + 1
                   /\ UNCHANGED <<fpc, mode>>
    /\ UNCHANGED <<doc, contentDiv, questionData, solutionData,
                   correctOption, thrown, returnValue>>
    /\ UNCHANGED <<hvars, cvars, ovars>>
    /\ UNCHANGED <<relay, requests, htmlLength, aiCalls>>

\* Lines 214-230: the empty-question check, both normalisations and the
\* pattern search for the answer.
Normalize ==
    /\ fpc = "walked"
    /\ IF NoQuestionContent(questionAccumulator)
         THEN /\ fpc' = "thrown"
              /\ thrown' = "No question content found"
              /\ UNCHANGED <<questionData, solutionData, correctOption>>
         ELSE LET q == cleanAndRestoreLatex(questionAccumulator)
                  s == cleanAndRestoreLatex(SolutionMarkup(solutionAccumulator))
                  letter == RegexAnswer(s.html)
              IN  /\ questionData' = q
                  /\ solutionData' = s
                  /\ correctOption' = letter
                  /\ fpc' = IF letter = "" THEN "ai" ELSE "assemble"
                  /\ thrown' = thrown
    /\ UNCHANGED <<doc, contentDiv, curr, mode, questionAccumulator,
                   solutionAccumulator, returnValue>>
    /\ UNCHANGED <<hvars, cvars, ovars>>
    /\ UNCHANGED <<relay, requests, htmlLength, aiCalls>>

\* correctOption = await extractCorrectOptionWithAI(solutionData.html)
AiFallback ==
    /\ fpc = "ai"
    /\ \E ai \in AiOutcomes :
         /\ aiCalls' = Append(aiCalls, ai)
         /\ CASE ai.kind = "noClient" ->
                /\ fpc' = "thrown"
                /\ thrown' = "API Key not found in environment"
                /\ correctOption' = correctOption
           [] ai.kind = "callFails" ->
                /\ fpc' = "assemble"
                /\ correctOption' = ""
                /\ thrown' = thrown
           [] ai.kind = "reply" ->
                /\ fpc' = "assemble"
                /\ correctOption' = AiLetter(ai.reply)
                /\ thrown' = thrown
    /\ UNCHANGED <<doc, contentDiv, curr, mode, questionAccumulator,
                   solutionAccumulator, questionData, solutionData, returnValue>>
    /\ UNCHANGED <<hvars, cvars, ovars>>
    /\ UNCHANGED <<relay, requests, htmlLength>>

\* return { id, source: ProblemSource.AOPS, ... }
Assemble ==
    /\ fpc = "assemble"
    /\ returnValue' =
         [ kind |-> "problem",
           problem |->
             [ id            |-> FetchTask.id,
               source        |-> "AoPS Archive",
               originalUrl   |-> FetchTask.url,
               questionHtml  |-> questionData.html,
               images        |-> questionData.images,
               options       |-> <<"A", "B", "C", "D", "E">>,
               correctOption |-> correctOption,
               solutionHtml  |-> solutionData.html,
               difficulty    |-> 5,
               hints         |-> <<>>,
               solutionChat  |-> <<>> ] ]
    /\ fpc' = "returned"
    /\ UNCHANGED <<doc, contentDiv, curr, mode, questionAccumulator,
                   solutionAccumulator, questionData, solutionData,
                   correctOption, thrown>>
    /\ UNCHANGED <<hvars, cvars, ovars>>
    /\ UNCHANGED <<relay, requests, htmlLength, aiCalls>>

\* catch (e) { console.warn(`Scraping error ...`); return null; }
Catch ==
    /\ fpc = "thrown"
    /\ returnValue' = Caught(thrown)
    /\ fpc' = "returned"
    /\ UNCHANGED <<doc, contentDiv, curr, mode, questionAccumulator,
                   solutionAccumulator, questionData, solutionData,
                   correctOption, thrown>>
    /\ UNCHANGED <<hvars, cvars, ovars>>
    /\ UNCHANGED <<relay, requests, htmlLength, aiCalls>>

NextFetch ==
    \/ FetchPage
    \/ FindContent
    \/ WalkStep
    \/ Normalize
    \/ AiFallback
    \/ Assemble
    \/ Catch

\* ------------------------------------------- generateFullCatalogQueue

AMC8_START_YEAR == 1985
AMC10_12_START_YEAR == 2000
CURRENT_YEAR == 2025

\* The count every addTask call is given.
ExamProblems == 25

\* addTask(y, lvl, wikiName, display, idSuffix, count): the tasks it pushes.
addTask(y, lvl, wikiName, display, idSuffix, count) ==
    [ n \in 1..count |-> Task(y, lvl, wikiName, display, idSuffix, n) ]

\* Mutant of IsAjhsme: 1998 is taken for an AMC 8 year.
IsAjhsmeBefore1998(y) == y < 1998

\* const isAjhsme = y <= 1998
IsAjhsme(y) == y <= 1998

\* Mutant of Variants: B is pushed before A.
VariantsBFirst(y) ==
    IF y = 2000 \/ y = 2001 THEN <<"">> ELSE <<"B", "A">>

\* The variants of an AMC 10 / AMC 12 year, in the order they are pushed:
\* one exam without a letter in 2000 and 2001, else A and B.
Variants(y) ==
    IF y = 2000 \/ y = 2001 THEN <<"">> ELSE <<"A", "B">>

\* The names addTask is given for an exam: wikiName, display, idSuffix.
Names(family, variant) ==
    CASE family = "amc8" /\ variant = "AJHSME" ->
           [ wiki |-> "AJHSME", display |-> "AJHSME", id |-> "amc8" ]
      [] family = "amc8" /\ variant = "" ->
           [ wiki |-> "AMC_8", display |-> "AMC 8", id |-> "amc8" ]
      [] family = "amc10" /\ variant = "" ->
           [ wiki |-> "AMC_10", display |-> "AMC 10", id |-> "amc10" ]
      [] family = "amc10" /\ variant = "A" ->
           [ wiki |-> "AMC_10A", display |-> "AMC 10A", id |-> "amc10a" ]
      [] family = "amc10" /\ variant = "B" ->
           [ wiki |-> "AMC_10B", display |-> "AMC 10B", id |-> "amc10b" ]
      [] family = "amc12" /\ variant = "" ->
           [ wiki |-> "AMC_12", display |-> "AMC 12", id |-> "amc12" ]
      [] family = "amc12" /\ variant = "A" ->
           [ wiki |-> "AMC_12A", display |-> "AMC 12A", id |-> "amc12a" ]
      [] family = "amc12" /\ variant = "B" ->
           [ wiki |-> "AMC_12B", display |-> "AMC 12B", id |-> "amc12b" ]

\* ExamLevel of a family.
Level(family) ==
    CASE family = "amc8" -> "AMC 8"
      [] family = "amc10" -> "AMC 10"
      [] family = "amc12" -> "AMC 12"

\* The three loops in the order they run, and the year each stops after.
NextLoop(loop) ==
    CASE loop = "amc8" -> "amc10"
      [] loop = "amc10" -> "amc12"
      [] loop = "amc12" -> "done"

StartYear(loop) ==
    IF loop = "amc8" THEN AMC8_START_YEAR ELSE AMC10_12_START_YEAR

\* A loop whose condition y >= start fails gives way to the next one, which
\* starts at CURRENT_YEAR.
RECURSIVE Settle(_)
Settle(c) ==
    IF c.loop # "done" /\ c.y < StartYear(c.loop)
      THEN Settle([ c EXCEPT !.loop = NextLoop(c.loop), !.y = CURRENT_YEAR ])
      ELSE c

\* const queue = [], before the first loop; k counts the addTask calls made
\* in the loop body of year y.
CatalogStart ==
    Settle([ queue |-> <<>>, loop |-> "amc8", y |-> CURRENT_YEAR, k |-> 0 ])

\* One addTask call of the AMC 8 loop, and y--.
Amc8Step(c) ==
    LET nm == Names("amc8", IF IsAjhsme(c.y) THEN "AJHSME" ELSE "")
    IN  [ c EXCEPT
            !.queue = @ \o addTask(c.y, Level("amc8"), nm.wiki, nm.display,
                                   nm.id, ExamProblems),
            !.y = @ - 1 ]

\* One addTask call of the AMC 10 or the AMC 12 loop; y-- after the last
\* one of the year.
Amc1012Step(c) ==
    LET vs == Variants(c.y)
        nm == Names(c.loop, vs[c.k + 1])
        pushed == c.queue \o addTask(c.y, Level(c.loop), nm.wiki, nm.display,
                                     nm.id, ExamProblems)
    IN  IF c.k + 1 < Len(vs)
          THEN [ c EXCEPT !.queue = pushed, !.k = @ + 1 ]
          ELSE [ c EXCEPT !.queue = pushed, !.k = 0, !.y = @ - 1 ]

CatalogStep(c) ==
    Settle(IF c.loop = "amc8" THEN Amc8Step(c) ELSE Amc1012Step(c))

\* The queue generateFullCatalogQueue returns.
RECURSIVE RunCatalog(_)
RunCatalog(c) == IF c.loop = "done" THEN c.queue ELSE RunCatalog(CatalogStep(c))

generateFullCatalogQueue == RunCatalog(CatalogStart)

\* for (let y = CURRENT_YEAR; y >= AMC8_START_YEAR; y--) addTask(...)
AddAmc8 ==
    /\ catalog.loop = "amc8"
    /\ catalog' = CatalogStep(catalog)
    /\ UNCHANGED <<indices, testQueue, tpc>>
    /\ UNCHANGED <<hvars, fvars, ovars>>

\* for (let y = CURRENT_YEAR; y >= AMC10_12_START_YEAR; y--) { AMC 10 }
AddAmc10 ==
    /\ catalog.loop = "amc10"
    /\ catalog' = CatalogStep(catalog)
    /\ UNCHANGED <<indices, testQueue, tpc>>
    /\ UNCHANGED <<hvars, fvars, ovars>>

\* for (let y = CURRENT_YEAR; y >= AMC10_12_START_YEAR; y--) { AMC 12 }
AddAmc12 ==
    /\ catalog.loop = "amc12"
    /\ catalog' = CatalogStep(catalog)
    /\ UNCHANGED <<indices, testQueue, tpc>>
    /\ UNCHANGED <<hvars, fvars, ovars>>

NextCatalog ==
    \/ AddAmc8
    \/ AddAmc10
    \/ AddAmc12

\* No catalog is being built and no test queue drawn.
CatalogIdle ==
    /\ catalog = [ CatalogStart EXCEPT !.loop = "idle" ]
    /\ indices = {}
    /\ testQueue = <<>>
    /\ tpc = "idle"

\* ---------------------------------------------------- generateTestQueue

\* const full = generateFullCatalogQueue()
full == generateFullCatalogQueue

\* indices.size < 10
TestQueueSize == 10

\* The values Math.floor(Math.random() * full.length) takes in the model:
\* MaxDraws indexes spread over the catalog.
DrawStride == 353

Draws == { (k * DrawStride) % Len(full) : k \in 0..(MaxDraws - 1) }

\* Mutant of LoopContinues: the loop stops one index early.
LoopContinuesOneShort(ind) ==
    Cardinality(ind) < TestQueueSize - 1 /\ Cardinality(ind) < Len(full)

\* while (indices.size < 10 && indices.size < full.length)
LoopContinues(ind) ==
    Cardinality(ind) < TestQueueSize /\ Cardinality(ind) < Len(full)

\* indices.add(Math.floor(Math.random() * full.length))
Pick ==
    /\ tpc = "pick"
    /\ LoopContinues(indices)
    /\ \E r \in Draws : indices' = indices \cup { r }
    /\ UNCHANGED <<catalog, testQueue, tpc>>
    /\ UNCHANGED <<hvars, fvars, ovars>>

\* indices.forEach(i => testQueue.push(full[i])); return testQueue. The
\* tasks are kept by picked index; the order of insertion is not followed.
Return ==
    /\ tpc = "pick"
    /\ ~LoopContinues(indices)
    /\ testQueue' = [ j \in indices |-> full[j + 1] ]
    /\ tpc' = "done"
    /\ UNCHANGED <<catalog, indices>>
    /\ UNCHANGED <<hvars, fvars, ovars>>

NextTest ==
    \/ Pick
    \/ Return

\* ------------------------------------------------------- retryWithBackoff

\* retries = 3, delay = 3000 are the defaults of line 17.
DefaultDelay == 3000

\* An error fn rejects with: its status (0 for none) and its message.
ApiError(status, message) == [ status |-> status, message |-> message ]

Errors ==
    { ApiError(429, <<"Too", SP, "Many", SP, "Requests">>),
      ApiError(0, <<"got", SP, "status", SP, "429", SP, "RESOURCE_EXHAUSTED">>),
      ApiError(0, <<"You", SP, "exceeded", SP, "your", SP, "current", SP, "quota">>),
      ApiError(500, <<"Internal", SP, "error">>),
      ApiError(503, <<"The", SP, "model", SP, "is", SP, "overloaded">>),
      ApiError(400, <<"Invalid", SP, "argument">>),
      ApiError(0, <<"Failed", SP, "to", SP, "parse", SP, "JSON", SP, "content.">>),
      ApiError(0, <<>>) }

\* How a call of fn settles.
FnOutcomes ==
    { [ kind |-> "value", error |-> ApiError(0, <<>>) ] } \cup
    { [ kind |-> "error", error |-> e ] : e \in Errors }

IsRateLimit(error) ==
    \/ error.status = 429
    \/ Includes(error.message, <<"429">>)
    \/ Includes(error.message, <<"quota">>)

\* error?.status > 500
IsServerErrAbove500(error) == error.status > 500

IsServerErr(error) == error.status >= 500

RetryCall(budgets) ==
    /\ firstCall \in { [ retries |-> r, delay |-> DefaultDelay ] : r \in budgets }
    /\ retries = firstCall.retries
    /\ delay = firstCall.delay
    /\ attempts = <<>>
    /\ waited = <<>>
    /\ rpc = "call"
    /\ settledAs = [ kind |-> "pending", error |-> ApiError(0, <<>>) ]

\* try { return await fn() } catch (error) { ... }
RetryAttempt ==
    /\ rpc = "call"
    /\ \E out \in FnOutcomes :
          /\ attempts' = Append(attempts, out)
          /\ IF out.kind = "value"
               THEN /\ rpc' = "returned"
                    /\ settledAs' = [ kind |-> "value", error |-> out.error ]
             ELSE IF retries > 0 /\ (IsRateLimit(out.error) \/ IsServerErr(out.error))
               THEN /\ rpc' = "wait"
                    /\ UNCHANGED settledAs
             ELSE /\ rpc' = "thrown"
                  /\ settledAs' = [ kind |-> "error", error |-> out.error ]
    /\ UNCHANGED <<firstCall, retries, delay, waited>>
    /\ UNCHANGED <<hvars, fvars, cvars, nvars, jvars, gvars, evars, avars>>

\* await wait(delay); return retryWithBackoff(fn, retries - 1, delay * 2)
RetryWait ==
    /\ rpc = "wait"
    /\ waited' = Append(waited, delay)
    /\ retries' = retries - 1
    /\ delay' = delay * 2
    /\ rpc' = "call"
    /\ UNCHANGED <<firstCall, attempts, settledAs>>
    /\ UNCHANGED <<hvars, fvars, cvars, nvars, jvars, gvars, evars, avars>>

NextRetry ==
    \/ RetryAttempt
    \/ RetryWait

RetryIdle ==
    /\ firstCall = [ retries |-> 0, delay |-> DefaultDelay ]
    /\ retries = 0
    /\ delay = DefaultDelay
    /\ attempts = <<>>
    /\ waited = <<>>
    /\ rpc = "idle"
    /\ settledAs = [ kind |-> "pending", error |-> ApiError(0, <<>>) ]

\* -------------------------------------------------- parseJsonFromResponse

\* A text is the sequence of its characters; a backslash, a code fence (three
\* backquotes) and a fence with its language tag are one token each.
BS == "backslash"
QUOTE == "\""
FENCE == "fence"
FENCEJSON == "fence-json"

\* The characters JSON.parse takes after a backslash, of the ones a text of
\* the model can hold, and what they stand for.
EscapeChars == { QUOTE, BS, "n" }

Unescape(ch) == IF ch = "n" THEN "LF" ELSE ch

\* text.indexOf(ch), text.lastIndexOf(ch): 0-based, -1 for none
IndexOf(s, ch) ==
    IF \E k \in DOMAIN s : s[k] = ch
      THEN (CHOOSE k \in DOMAIN s : s[k] = ch /\ \A j \in 1..(k - 1) : s[j] # ch) - 1
      ELSE -1

LastIndexOf(s, ch) ==
    IF \E k \in DOMAIN s : s[k] = ch
      THEN (CHOOSE k \in DOMAIN s :
               s[k] = ch /\ \A j \in (k + 1)..Len(s) : s[j] # ch) - 1
      ELSE -1

\* text.substring(a, b): the arguments are clamped to 0..length and swapped
\* when a > b.
Clamp(s, a) == IF a < 0 THEN 0 ELSE IF a > Len(s) THEN Len(s) ELSE a

Substring(s, a, b) ==
    LET lo == IF Clamp(s, a) <= Clamp(s, b) THEN Clamp(s, a) ELSE Clamp(s, b)
        hi == IF Clamp(s, a) <= Clamp(s, b) THEN Clamp(s, b) ELSE Clamp(s, a)
    IN  SubSeq(s, lo + 1, hi)

\* .replace(/```json\s*/gi, '')
RECURSIVE DropJsonFences(_)
DropJsonFences(s) ==
    IF s = <<>> THEN s
    ELSE IF Head(s) = FENCEJSON
      THEN LET rest == Tail(s)
               RECURSIVE SkipSpace(_)
               SkipSpace(r) == IF r # <<>> /\ Head(r) = SP
                                 THEN SkipSpace(Tail(r)) ELSE r
           IN  DropJsonFences(SkipSpace(rest))
    ELSE <<Head(s)>> \o DropJsonFences(Tail(s))

\* .replace(/```\s*$/g, '')
RECURSIVE DropLastFence(_)
DropLastFence(s) ==
    LET RECURSIVE Spaces(_)
        Spaces(r) == IF r # <<>> /\ r[Len(r)] = SP
                       THEN Spaces(SubSeq(r, 1, Len(r) - 1)) ELSE r
        body == Spaces(s)
    IN  IF body # <<>> /\ body[Len(body)] = FENCE
          THEN SubSeq(body, 1, Len(body) - 1)
          ELSE s

\* .replace(/```/g, '')
DropFences(s) == SelectSeq(s, LAMBDA ch : ch # FENCE)

\* Line 38
CleanFences(text) == Trim(DropFences(DropLastFence(DropJsonFences(text))))

\* The choice of line 47 with the brace always taken for the outer one
ArrayIsOuterNever(first, firstArr) == FALSE

\* firstArr !== -1 && (first === -1 || firstArr < first)
ArrayIsOuter(first, firstArr) ==
    firstArr # -1 /\ (first = -1 \/ firstArr < first)

\* Lines 41-51
Boundaries(clean) ==
    LET first == IndexOf(clean, "{")
        firstArr == IndexOf(clean, "[")
        last == LastIndexOf(clean, "}")
        lastArr == LastIndexOf(clean, "]")
    IN  IF ArrayIsOuter(first, firstArr)
          THEN IF lastArr # -1 THEN Substring(clean, firstArr, lastArr + 1)
                               ELSE clean
        ELSE IF first # -1 /\ last # -1
          THEN Substring(clean, first, last + 1)
        ELSE clean

\* JSON.parse, first pass: the tokens of a text. A string is read up to its
\* closing quote with its escapes decoded; digits next to each other are one
\* number; white space between tokens is dropped.
NoString == [ end |-> 0, value |-> <<>> ]

RECURSIVE ScanString(_, _, _)
ScanString(s, p, acc) ==
    IF p > Len(s) THEN NoString
    ELSE IF s[p] = QUOTE THEN [ end |-> p, value |-> acc ]
    ELSE IF s[p] = BS
      THEN IF p + 1 <= Len(s) /\ s[p + 1] \in EscapeChars
             THEN ScanString(s, p + 2, Append(acc, Unescape(s[p + 1])))
             ELSE NoString
    ELSE ScanString(s, p + 1, Append(acc, s[p]))

\* The digits a text of the model can hold, and the characters of a number.
Digits == { "0", "1", "2", "5", "7" }

DigitValue(ch) ==
    CASE ch = "0" -> 0 [] ch = "1" -> 1 [] ch = "2" -> 2
      [] ch = "5" -> 5 [] ch = "7" -> 7

RECURSIVE DigitsEnd(_, _)
DigitsEnd(s, p) ==
    IF p + 1 <= Len(s) /\ s[p + 1] \in Digits \cup { "." }
      THEN DigitsEnd(s, p + 1) ELSE p

\* int frac?, with no exponent and no sign: digits without a leading zero,
\* then at most one point followed by digits.
IsNumber(run) ==
    LET points == { k \in DOMAIN run : run[k] = "." }
    IN  /\ run # <<>>
        /\ run[1] \in Digits
        /\ run[1] = "0" => (Len(run) = 1 \/ run[2] = ".")
        /\ Cardinality(points) <= 1
        /\ \A k \in points : k < Len(run)

NoTokens == [ ok |-> FALSE, tokens |-> <<>> ]

RECURSIVE Lex(_, _, _)
Lex(s, p, acc) ==
    IF p > Len(s) THEN [ ok |-> TRUE, tokens |-> acc ]
    ELSE IF s[p] = SP THEN Lex(s, p + 1, acc)
    ELSE IF s[p] \in { "{", "}", "[", "]", ":", "," }
      THEN Lex(s, p + 1, Append(acc, <<s[p]>>))
    ELSE IF s[p] \in Digits
      THEN IF IsNumber(SubSeq(s, p, DigitsEnd(s, p)))
             THEN Lex(s, DigitsEnd(s, p) + 1,
                      Append(acc, <<"number">> \o SubSeq(s, p, DigitsEnd(s, p))))
             ELSE NoTokens
    ELSE IF s[p] = QUOTE
      THEN LET str == ScanString(s, p + 1, <<>>)
           IN  IF str.end = 0 THEN NoTokens
               ELSE Lex(s, str.end + 1, Append(acc, <<"string">> \o str.value))
    ELSE NoTokens

\* JSON.parse, second pass: the place after the value that starts at token
\* p, 0 when none does.
IsToken(l, p, ch) == p <= Len(l) /\ l[p] = <<ch>>

RECURSIVE ValueEnd(_, _)
RECURSIVE ElementsEnd(_, _)
RECURSIVE MembersEnd(_, _)
ValueEnd(l, p) ==
    IF p > Len(l) THEN 0
    ELSE IF l[p][1] \in { "number", "string" } THEN p + 1
    ELSE IF l[p] = <<"[">>
      THEN IF IsToken(l, p + 1, "]") THEN p + 2 ELSE ElementsEnd(l, p + 1)
    ELSE IF l[p] = <<"{">>
      THEN IF IsToken(l, p + 1, "}") THEN p + 2 ELSE MembersEnd(l, p + 1)
    ELSE 0

ElementsEnd(l, p) ==
    LET e == ValueEnd(l, p)
    IN  IF e = 0 THEN 0
        ELSE IF IsToken(l, e, "]") THEN e + 1
        ELSE IF IsToken(l, e, ",") THEN ElementsEnd(l, e + 1)
        ELSE 0

MembersEnd(l, p) ==
    IF p + 1 <= Len(l) /\ l[p][1] = "string" /\ l[p + 1] = <<":">>
      THEN LET e == ValueEnd(l, p + 2)
           IN  IF e = 0 THEN 0
               ELSE IF IsToken(l, e, "}") THEN e + 1
               ELSE IF IsToken(l, e, ",") THEN MembersEnd(l, e + 1)
               ELSE 0
      ELSE 0

\* JSON.parse(text): the value, as its tokens, or a SyntaxError.
JsonParse(s) ==
    LET lexed == Lex(s, 1, <<>>)
    IN  IF lexed.ok /\ ValueEnd(lexed.tokens, 1) = Len(lexed.tokens) + 1
          THEN [ ok |-> TRUE, value |-> lexed.tokens ]
          ELSE [ ok |-> FALSE, value |-> <<>> ]

\* clean.replace(/\\/g, "\\\\")
RECURSIVE DoubleBackslashes(_)
DoubleBackslashes(s) ==
    IF s = <<>> THEN s
    ELSE (IF Head(s) = BS THEN <<BS, BS>> ELSE <<Head(s)>>)
            \o DoubleBackslashes(Tail(s))

\* .replace(/\\\\\\/g, "\\\\"): three backslashes in a row become two
RECURSIVE CollapseTriples(_)
CollapseTriples(s) ==
    IF Len(s) >= 3 /\ s[1] = BS /\ s[2] = BS /\ s[3] = BS
      THEN <<BS, BS>> \o CollapseTriples(SubSeq(s, 4, Len(s)))
    ELSE IF s = <<>> THEN s
    ELSE <<Head(s)>> \o CollapseTriples(Tail(s))

\* Line 59
Repair(clean) == CollapseTriples(DoubleBackslashes(clean))

JsonNull == [ kind |-> "null", value |-> <<>> ]

JsonValue(v) == [ kind |-> "value", value |-> v ]

parseJsonFromResponse(t) ==
    IF t = <<>> THEN JsonNull
    ELSE LET clean == Boundaries(CleanFences(t))
             direct == JsonParse(clean)
             fixed == JsonParse(Repair(clean))
         IN  IF direct.ok THEN JsonValue(direct.value)
             ELSE IF fixed.ok THEN JsonValue(fixed.value)
             ELSE JsonNull

\* The texts a response can hold: every text of up to MaxChars characters
\* of prose, fences, digits and delimiters; an object or an array between
\* what a model puts around it; an object whose string holds backslashes.
ProseChars == { FENCEJSON, FENCE, SP, "{", "}", "[", "]", "1", "w" }

ShortTexts == UNION { [ 1..n -> ProseChars ] : n \in 0..MaxChars }

Payloads ==
    { <<"{", QUOTE, "q", QUOTE, ":", "1", "}">>,
      <<"{", QUOTE, "q", QUOTE, ":", "[", "1", ",", "1", "]", ",",
        QUOTE, "c", QUOTE, ":", QUOTE, "A", QUOTE, "}">>,
      <<"[", "{", QUOTE, "id", QUOTE, ":", "1", "}", "]">> }

Openers == { <<>>, <<FENCEJSON, SP>>, <<FENCE, SP>>, <<"w", SP, "w", ":", SP>> }

Closers ==
    { <<>>, <<SP, FENCE>>, <<SP, FENCE, SP>>,
      <<SP, FENCE, SP, "w", SP, "w", SP, "w", ".">> }

WrappedTexts == { o \o b \o c : o \in Openers, b \in Payloads, c \in Closers }

StringChars == { BS, QUOTE, "s", "n" }

Quoted(body) == <<"{", QUOTE, "q", QUOTE, ":", QUOTE>> \o body \o <<QUOTE, "}">>

LatexTexts ==
    { Quoted(b) : b \in UNION { [ 1..n -> StringChars ] : n \in 0..MaxChars } }

ParseCall ==
    /\ responseText \in ShortTexts \cup WrappedTexts \cup LatexTexts
    /\ parsed = [ kind |-> "pending", value |-> <<>> ]

\* parseJsonFromResponse(response.text)
ParseResponse ==
    /\ parsed.kind = "pending"
    /\ parsed' = parseJsonFromResponse(responseText)
    /\ UNCHANGED responseText
    /\ UNCHANGED <<hvars, fvars, cvars, nvars, rvars, gvars, evars, avars>>

NextParse ==
    \/ ParseResponse

ParseIdle ==
    /\ responseText = <<>>
    /\ parsed = JsonNull

\* ------------------------------------ fetchMockProblem, generateAIProblem

\* A JavaScript value is the sequence of the tokens JSON.parse read it from
\* (<<>> is undefined); a number is held in tenths, so that 7.5 is 75.
Undefined == <<>>

Str(chars) == << <<"string">> \o chars >>

IsString(x) == Len(x) = 1 /\ x[1][1] = "string"

IsNum(x) == Len(x) = 1 /\ x[1][1] = "number"

RECURSIVE Whole(_)
Whole(digits) ==
    IF digits = <<>> THEN 0
    ELSE 10 * Whole(SubSeq(digits, 1, Len(digits) - 1))
           + DigitValue(digits[Len(digits)])

\* The value of a number with at most one digit after the point, in tenths.
Tenths(x) ==
    LET run == Tail(x[1])
        point == IF \E k \in DOMAIN run : run[k] = "."
                   THEN CHOOSE k \in DOMAIN run : run[k] = "."
                   ELSE Len(run) + 1
    IN  10 * Whole(SubSeq(run, 1, point - 1))
          + (IF point < Len(run) THEN DigitValue(run[point + 1]) ELSE 0)

\* !!x
Truthy(x) ==
    IF x = Undefined THEN FALSE
    ELSE IF IsString(x) THEN Len(x[1]) > 1
    ELSE IF IsNum(x) THEN Tenths(x) # 0
    ELSE TRUE

\* data.name: the value of the last member of that name of an object,
\* undefined for a value that has none.
Depth(v, k) ==
    Cardinality({ j \in 1..(k - 1) : v[j] \in { <<"{">>, <<"[">> } })
      - Cardinality({ j \in 1..(k - 1) : v[j] \in { <<"}">>, <<"]">> } })

Field(v, name) ==
    LET keys == { k \in 1..(Len(v) - 1) :
                    /\ v[1] = <<"{">>
                    /\ v[k] = <<"string", name>>
                    /\ v[k + 1] = <<":">>
                    /\ Depth(v, k) = 1 }
    IN  IF keys = {} THEN Undefined
        ELSE LET k == CHOOSE k \in keys : \A j \in keys : j <= k
             IN  SubSeq(v, k + 2, ValueEnd(v, k + 2) - 1)

\* x?.toString()
ToStringOf(x) ==
    IF x = Undefined THEN Undefined
    ELSE IF IsNum(x) THEN Str(Tail(x[1]))
    ELSE x

\* x || y
OrElse(x, y) == IF Truthy(x) THEN x ELSE y

\* The template literals real-${i}, mock-${i}, ai-${i}, quiz-${i}
Id(prefix, n) == <<prefix, "-", n>>

\* What one call of the function handed to retryWithBackoff gives.
NoProblem ==
    [ id |-> <<>>, source |-> "", originalUrl |-> <<>>, questionHtml |-> Undefined,
      correctOption |-> Undefined, solutionHtml |-> Undefined,
      difficulty |-> 0, hints |-> <<>>, solutionChat |-> <<>> ]

Returns(problem) == [ kind |-> "problem", problem |-> problem, error |-> <<>> ]

Throws(message) == [ kind |-> "raised", problem |-> NoProblem, error |-> message ]

\* difficulty: 5 of lines 246 and 283
PlaceholderDifficulty == 5

\* Math.max(1, Math.min(10, n)), on tenths
ClampDifficulty(n) ==
    LET low == IF n < 100 THEN n ELSE 100
    IN  IF low > 10 THEN low ELSE 10

\* Lines 272-286
MockProblem(response, id) ==
    LET data == parseJsonFromResponse(response)
    IN  Returns([ NoProblem EXCEPT
                    !.id = id, !.source = "MOCK",
                    !.questionHtml = Field(data.value, "questionHtml"),
                    !.correctOption =
                       OrElse(ToStringOf(Field(data.value, "correctOption")), Str(<<>>)),
                    !.solutionHtml =
                       OrElse(Field(data.value, "solutionHtml"), Str(<<>>)),
                    !.difficulty = 10 * PlaceholderDifficulty ])

MockAttempt(response, id) ==
    LET data == parseJsonFromResponse(response)
    IN  IF \/ data.kind = "null"
           \/ ~Truthy(data.value)
           \/ ~Truthy(Field(data.value, "questionHtml"))
          THEN Throws(<<"Failed to parse JSON content.">>)
          ELSE MockProblem(response, id)

\* Lines 320-329: the number the model estimated, else the band of the word
\* it answered with, else the band of the difficulty asked for.
BandWithoutExtreme(dStr) ==
    IF Includes(dStr, <<"Easy">>) THEN 3
    ELSE IF Includes(dStr, <<"Medium">>) THEN 5
    ELSE IF Includes(dStr, <<"Hard">>) THEN 8
    ELSE 5

Band(dStr) ==
    IF Includes(dStr, <<"Easy">>) THEN 3
    ELSE IF Includes(dStr, <<"Medium">>) THEN 5
    ELSE IF Includes(dStr, <<"Hard">>) THEN 8
    ELSE IF Includes(dStr, <<"Extreme">>) THEN 10
    ELSE 5

\* String(x) of a string or a number
StringOf(x) == IF IsString(x) \/ IsNum(x) THEN Tail(x[1]) ELSE <<"[object]">>

NumDiff(estimated, difficulty) ==
    IF IsNum(estimated) THEN Tenths(estimated)
    ELSE 10 * Band(StringOf(OrElse(estimated, Str(<<difficulty>>))))

\* Lines 316-346
AiAttempt(response, difficulty, id) ==
    LET data == parseJsonFromResponse(response)
    IN  IF data.kind = "null" \/ ~Truthy(data.value)
          THEN Throws(<<"Invalid JSON from AI Generation">>)
          ELSE Returns([ NoProblem EXCEPT
                 !.id = id, !.source = "AI_GENERATED",
                 !.questionHtml = Field(data.value, "questionHtml"),
                 !.correctOption = ToStringOf(Field(data.value, "correctOption")),
                 !.solutionHtml = Field(data.value, "solutionHtml"),
                 !.difficulty =
                    ClampDifficulty(NumDiff(Field(data.value, "estimatedDifficulty"),
                                            difficulty)) ])

\* The texts a model answers a generation prompt with: an object with some
\* of the keys asked for, and texts that hold no object.
Member(name, value) == <<QUOTE, name, QUOTE, ":">> \o value

Quote(chars) == <<QUOTE>> \o chars \o <<QUOTE>>

RECURSIVE Joined(_)
Joined(members) ==
    IF members = <<>> THEN <<>>
    ELSE IF Len(members) = 1 THEN members[1]
    ELSE members[1] \o <<",">> \o Joined(Tail(members))

ObjectText(members) ==
    <<"{">> \o Joined(SelectSeq(members, LAMBDA m : m # <<>>)) \o <<"}">>

Absent == { <<>> }

Estimates ==
    { Member("estimatedDifficulty", v) :
        v \in { <<"0">>, <<"7">>, <<"1", "2">>, <<"7", ".", "5">>,
                Quote(<<>>), Quote(<<"Easy">>), Quote(<<"Medium">>),
                Quote(<<"Hard">>), Quote(<<"Extreme">>), Quote(<<"Tough">>),
                Quote(<<"hard">>),
                Quote(<<"Medium", "-", "Hard">>) } }

Replies ==
    { ObjectText(<<q, c, s, e>>) :
        q \in Absent \cup { Member("questionHtml", Quote(<<>>)),
                            Member("questionHtml", Quote(<<"How", SP, "many?">>)) },
        c \in Absent \cup { Member("correctOption", Quote(<<"B">>)) },
        s \in Absent \cup { Member("solutionHtml", Quote(<<"Count", SP, "them.">>)) },
        e \in Absent \cup Estimates }
    \cup
    { <<>>,
      <<"I", SP, "cannot", SP, "help", SP, "with", SP, "that.">>,
      <<"[", "]">>,
      <<"7">>,
      <<"0">>,
      <<FENCEJSON, SP>>
         \o ObjectText(<< Member("questionHtml", Quote(<<"How", SP, "many?">>)),
                          Member("correctOption", Quote(<<"B">>)),
                          Member("solutionHtml", Quote(<<"Count", SP, "them.">>)) >>)
         \o <<SP, FENCE>>,
      ObjectText(<< Member("questionHtml", Quote(<<"Find", SP, BS, "s", "qrt{2}">>)),
                    Member("correctOption", Quote(<<"B">>)),
                    Member("solutionHtml", Quote(<<"It", SP, "is", SP, BS, "s", "qrt{2}">>)) >>) }

Requested == { "Easy", "Medium", "Hard", "Extreme" }

GenerateCall ==
    /\ generator \in { "mock", "ai" }
    /\ answered \in Replies
    /\ requested \in (IF generator = "ai" THEN Requested ELSE { "" })
    /\ produced = [ kind |-> "pending", problem |-> NoProblem, error |-> <<>> ]

\* fetchMockProblem: the function of lines 265-287, called once
FetchMock ==
    /\ generator = "mock"
    /\ produced.kind = "pending"
    /\ produced' = MockAttempt(answered, Id("mock", 0))
    /\ UNCHANGED <<generator, answered, requested>>
    /\ UNCHANGED <<hvars, fvars, cvars, nvars, rvars, jvars, evars, avars>>

\* generateAIProblem: the function of lines 306-347, called once
GenerateAi ==
    /\ generator = "ai"
    /\ produced.kind = "pending"
    /\ produced' = AiAttempt(answered, requested, Id("ai", 0))
    /\ UNCHANGED <<generator, answered, requested>>
    /\ UNCHANGED <<hvars, fvars, cvars, nvars, rvars, jvars, evars, avars>>

NextGenerate ==
    \/ FetchMock
    \/ GenerateAi

GenerateIdle ==
    /\ generator = "none"
    /\ answered = <<>>
    /\ requested = ""
    /\ produced = [ kind |-> "pending", problem |-> NoProblem, error |-> <<>> ]

\* ---------------------------------------------------------------------------
\* generateExam, generateMiniQuiz, gradeProblemsByDifficulty
\* ---------------------------------------------------------------------------

\* const MAX_ATTEMPTS = 10
MAX_ATTEMPTS == 10

\* for(let i=0; i<5; i++) of generateMiniQuiz
QuizSize == 5

Num(digits) == << <<"number">> \o digits >>

\* What getAoPSUrlAndMeta draws: a page of the archive and its problem number.
UrlPool ==
    { [ url |-> <<2019, "AMC_8_Problems", 3>>, problemNum |-> 3 ],
      [ url |-> <<2021, "Fall_AMC_10A", 25>>, problemNum |-> 25 ] }

\* problemNum = randomInt(1, 25)
ProblemNums == 1..25

\* The pages of two problems of one exam, for every problem number.
Page(n) == [ url |-> <<2019, "AMC_8_Problems", n>>, problemNum |-> n ]

WarmupPools == { { Page(n), Page(26 - n) } : n \in ProblemNums }

\* The Problem fetchAoPSProblem returns for a page it could read.
ArchiveProblem(url, id) ==
    [ NoProblem EXCEPT
        !.id = id, !.source = "AOPS_ARCHIVE", !.originalUrl = url,
        !.questionHtml = Str(<<"How", SP, "many?">>),
        !.correctOption = Str(<<"B">>),
        !.solutionHtml = Str(<<"Count", SP, "them.">>),
        !.difficulty = 10 * PlaceholderDifficulty ]

WarmupDifficultyFloor(problemNum) == 10 * ((problemNum * 10) \div 25)

\* Math.ceil((chosenProblemNum / 25) * 10), on tenths
WarmupDifficulty(problemNum) == 10 * ((problemNum * 10 + 24) \div 25)

\* while (!p && attempts < MAX_ATTEMPTS)
SlotOpen(found, tried) == found = <<>> /\ tried < MAX_ATTEMPTS

\* generatedUrls.has(url)
IsGeneratedNever(url, urls) == FALSE

IsGenerated(url, urls) == url \in urls

\* The texts the model answers a generation prompt of the exam with.
GoodMembers ==
    << Member("questionHtml", Quote(<<"How", SP, "many?">>)),
       Member("correctOption", Quote(<<"B">>)),
       Member("solutionHtml", Quote(<<"Count", SP, "them.">>)) >>

MockedReplies ==
    { ObjectText(GoodMembers),
      <<"I", SP, "cannot", SP, "help", SP, "with", SP, "that.">> }

GeneratedReplies ==
    { ObjectText(GoodMembers),
      ObjectText(GoodMembers \o << Member("estimatedDifficulty", <<"7", ".", "5">>) >>),
      ObjectText(<< Member("correctOption", Quote(<<"B">>)) >>),
      <<"I", SP, "cannot", SP, "help", SP, "with", SP, "that.">> }

\* fetchMockProblem and generateAIProblem as generateExam sees them: the
\* client cannot be made without a key, the request can fail after its
\* retries, else the answer is read.
MockedOutcomes(key, id) ==
    IF ~key THEN { Throws(<<"API Key not found">>) }
    ELSE { Throws(<<"request failed">>) }
           \cup { MockAttempt(t, id) : t \in MockedReplies }

GeneratedOutcomes(key, difficulty, id) ==
    IF ~key THEN { Throws(<<"API Key not found">>) }
    ELSE { Throws(<<"request failed">>) }
           \cup { AiAttempt(t, difficulty, id) : t \in GeneratedReplies }

\* const difficulties = ['Easy', 'Medium', 'Hard']; difficulties[i % 3]
Difficulties == <<"Easy", "Medium", "Hard">>

\* i < 2 ? 'Easy' : i < 4 ? 'Medium' : 'Hard'
QuizDifficulty(n) == IF n < 2 THEN "Easy" ELSE IF n < 4 THEN "Medium" ELSE "Hard"

\* problems.sort((a, b) => a.difficulty - b.difficulty): the sort is stable.
InsertByDifficulty(x, sorted) ==
    LET k == Cardinality({ j \in DOMAIN sorted : sorted[j].difficulty <= x.difficulty })
    IN  SubSeq(sorted, 1, k) \o <<x>> \o SubSeq(sorted, k + 1, Len(sorted))

Unsorted(list) == list

RECURSIVE SortByDifficulty(_)
SortByDifficulty(list) ==
    IF list = <<>> THEN <<>>
    ELSE InsertByDifficulty(list[Len(list)],
                            SortByDifficulty(SubSeq(list, 1, Len(list) - 1)))

\* The difficulty values of the entries the grader answers with.
GradeValues == { Str(<<"8">>), Num(<<"0">>), Num(<<"7", ".", "5">>), Num(<<"1", "2">>) }

\* The arrays parseJsonFromResponse gives for the grader's answer: one entry
\* for each problem summarised, and after them none or one for an id that
\* is of no problem.
Grades(list) ==
    { [ k \in DOMAIN list |-> [ id |-> list[k].id, difficulty |-> values[k] ] ] \o stray :
        values \in [ DOMAIN list -> GradeValues ],
        stray \in { <<>>, << [ id |-> Id("none", 0),
                               difficulty |-> Num(<<"7">>) ] >> } }

\* What the request of the grader gave: it failed, or its text held no
\* array, or it held the array of grades.
NoAnswer == [ answer |-> "none", grades |-> <<>> ]

GraderAnswers(list) ==
    { [ answer |-> "failed", grades |-> <<>> ],
      [ answer |-> "notArray", grades |-> <<>> ] }
    \cup { [ answer |-> "array", grades |-> g ] : g \in Grades(list) }

\* grades.forEach(...): lines 378-383
RECURSIVE ApplyGrades(_, _)
ApplyGrades(list, grades) ==
    IF grades = <<>> THEN list
    ELSE LET g == Head(grades)
             hits == { k \in DOMAIN list : list[k].id = g.id }
         IN  IF hits # {} /\ IsNum(g.difficulty)
               THEN LET k == CHOOSE k \in hits : \A j \in hits : k <= j
                    IN  ApplyGrades([ list EXCEPT ![k].difficulty =
                                        ClampDifficulty(Tenths(g.difficulty)) ],
                                    Tail(grades))
               ELSE ApplyGrades(list, Tail(grades))

\* gradeProblemsByDifficulty: getAiClient (line 352) and the summaries
\* (lines 355-358, p.questionHtml.substring) are outside the try; inside it
\* the request fails or answers something that is not an array (the
\* difficulties are kept), or answers grades.
GradeOutcomes(key, list) ==
    IF ~key \/ \E k \in DOMAIN list : ~IsString(list[k].questionHtml)
      THEN { [ kind |-> "rejected", problems |-> list, answer |-> NoAnswer ] }
      ELSE { [ kind |-> "returned",
               problems |-> SortByDifficulty(
                              IF a.answer = "array" THEN ApplyGrades(list, a.grades)
                              ELSE list),
               answer |-> a ] : a \in GraderAnswers(list) }

Configs ==
    { c \in [ realCount : 0..MaxTasks, mockCount : 0..MaxTasks, aiCount : 0..MaxTasks ] :
        c.realCount + c.mockCount + c.aiCount <= MaxTasks }

NoConfig == [ realCount |-> 0, mockCount |-> 0, aiCount |-> 0 ]

ExamFresh ==
    /\ slot = 0
    /\ slotAttempts = 0
    /\ slotProblem = <<>>
    /\ iterations = 0
    /\ generatedUrls = {}
    /\ problems = <<>>
    /\ completedTasks = 0
    /\ graderAnswer = NoAnswer

\* generateExam(levels, config, mode, onProgress) or generateMiniQuiz(topic, level)
ExamCall ==
    /\ apiKey \in BOOLEAN
    /\ urlPool = UrlPool
    /\ \/ /\ entry = "generateExam"
          /\ epc = "real" /\ config \in Configs /\ isWarmup \in BOOLEAN
       \/ /\ entry = "generateMiniQuiz"
          /\ epc = "quiz" /\ config = NoConfig /\ isWarmup = FALSE
    /\ ExamFresh

\* One pass of the while loop of lines 69-97.
RealAttempt ==
    /\ epc = "real"
    /\ slot < config.realCount
    /\ SlotOpen(slotProblem, slotAttempts)
    /\ iterations' = iterations + 1
    /\ \E meta \in urlPool :
         IF IsGenerated(meta.url, generatedUrls)
           THEN /\ slotAttempts' = slotAttempts + 1
                /\ UNCHANGED <<slotProblem, generatedUrls>>
           ELSE \E readable \in BOOLEAN :
                  IF readable
                    THEN /\ slotProblem' =
                              << [ ArchiveProblem(meta.url, Id("real", slot)) EXCEPT
                                     !.difficulty =
                                        IF isWarmup
                                          THEN ClampDifficulty(WarmupDifficulty(meta.problemNum))
                                          ELSE @ ] >>
                         /\ generatedUrls' = generatedUrls \cup { meta.url }
                         /\ UNCHANGED slotAttempts
                    ELSE /\ slotAttempts' = slotAttempts + 1
                         /\ UNCHANGED <<slotProblem, generatedUrls>>
    /\ UNCHANGED <<entry, urlPool, config, isWarmup, apiKey, epc, slot, problems, completedTasks>>
    /\ UNCHANGED graderAnswer
    /\ UNCHANGED <<hvars, fvars, cvars, nvars, rvars, jvars, gvars, avars>>

\* Lines 99-105: the slot is filled or given up.
RealSlotEnd ==
    /\ epc = "real"
    /\ slot < config.realCount
    /\ ~SlotOpen(slotProblem, slotAttempts)
    /\ problems' = problems \o slotProblem
    /\ slot' = slot + 1
    /\ slotAttempts' = 0
    /\ slotProblem' = <<>>
    /\ iterations' = 0
    /\ completedTasks' = completedTasks + 1
    /\ UNCHANGED <<entry, urlPool, config, isWarmup, apiKey, epc, generatedUrls>>
    /\ UNCHANGED graderAnswer
    /\ UNCHANGED <<hvars, fvars, cvars, nvars, rvars, jvars, gvars, avars>>

\* Lines 109-118
MockSlot ==
    /\ epc = "mock"
    /\ slot < config.mockCount
    /\ \E got \in MockedOutcomes(apiKey, Id("mock", slot)) :
         problems' = IF got.kind = "problem"
                       THEN Append(problems, got.problem) ELSE problems
    /\ slot' = slot + 1
    /\ completedTasks' = completedTasks + 1
    /\ UNCHANGED <<entry, urlPool, config, isWarmup, apiKey, epc, slotAttempts, slotProblem,
                   iterations, generatedUrls>>
    /\ UNCHANGED graderAnswer
    /\ UNCHANGED <<hvars, fvars, cvars, nvars, rvars, jvars, gvars, avars>>

\* Lines 122-132
AiSlot ==
    /\ epc = "ai"
    /\ slot < config.aiCount
    /\ \E got \in GeneratedOutcomes(apiKey, Difficulties[(slot % 3) + 1], Id("ai", slot)) :
         problems' = IF got.kind = "problem"
                       THEN Append(problems, got.problem) ELSE problems
    /\ slot' = slot + 1
    /\ completedTasks' = completedTasks + 1
    /\ UNCHANGED <<entry, urlPool, config, isWarmup, apiKey, epc, slotAttempts, slotProblem,
                   iterations, generatedUrls>>
    /\ UNCHANGED graderAnswer
    /\ UNCHANGED <<hvars, fvars, cvars, nvars, rvars, jvars, gvars, avars>>

\* The for loops of lines 62, 109 and 122 end.
LoopEnds ==
    /\ \/ epc = "real" /\ slot = config.realCount /\ epc' = "mock"
       \/ epc = "mock" /\ slot = config.mockCount /\ epc' = "ai"
       \/ epc = "ai" /\ slot = config.aiCount /\ epc' = "grade"
    /\ slot' = 0
    /\ UNCHANGED <<entry, urlPool, config, isWarmup, apiKey, slotAttempts, slotProblem, iterations,
                   generatedUrls, problems, completedTasks>>
    /\ UNCHANGED graderAnswer
    /\ UNCHANGED <<hvars, fvars, cvars, nvars, rvars, jvars, gvars, avars>>

\* Lines 135-148
Grade ==
    /\ epc = "grade"
    /\ IF problems = <<>>
         THEN epc' = "returned" /\ UNCHANGED <<problems, graderAnswer>>
         ELSE IF isWarmup
           THEN /\ epc' = "returned"
                /\ problems' = SortByDifficulty(problems)
                /\ UNCHANGED graderAnswer
           ELSE \E got \in GradeOutcomes(apiKey, problems) :
                  /\ epc' = got.kind
                  /\ problems' = got.problems
                  /\ graderAnswer' = got.answer
    /\ UNCHANGED <<entry, urlPool, config, isWarmup, apiKey, slot, slotAttempts, slotProblem,
                   iterations, generatedUrls, completedTasks>>
    /\ UNCHANGED <<hvars, fvars, cvars, nvars, rvars, jvars, gvars, avars>>

\* generateMiniQuiz: lines 153-159
QuizSlot ==
    /\ epc = "quiz"
    /\ slot < QuizSize
    /\ \E got \in GeneratedOutcomes(apiKey, QuizDifficulty(slot), Id("quiz", slot)) :
         problems' = IF got.kind = "problem"
                       THEN Append(problems, got.problem) ELSE problems
    /\ slot' = slot + 1
    /\ UNCHANGED <<entry, urlPool, config, isWarmup, apiKey, epc, slotAttempts, slotProblem,
                   iterations, generatedUrls, completedTasks>>
    /\ UNCHANGED graderAnswer
    /\ UNCHANGED <<hvars, fvars, cvars, nvars, rvars, jvars, gvars, avars>>

\* generateMiniQuiz: line 160
QuizGrade ==
    /\ epc = "quiz"
    /\ slot = QuizSize
    /\ \E got \in GradeOutcomes(apiKey, problems) :
         /\ epc' = got.kind
         /\ problems' = got.problems
         /\ graderAnswer' = got.answer
    /\ UNCHANGED <<entry, urlPool, config, isWarmup, apiKey, slot, slotAttempts, slotProblem,
                   iterations, generatedUrls, completedTasks>>
    /\ UNCHANGED <<hvars, fvars, cvars, nvars, rvars, jvars, gvars, avars>>

NextExam ==
    \/ RealAttempt
    \/ RealSlotEnd
    \/ MockSlot
    \/ AiSlot
    \/ LoopEnds
    \/ Grade
    \/ QuizSlot
    \/ QuizGrade

ExamIdle ==
    /\ entry = "none"
    /\ urlPool = {}
    /\ epc = "none"
    /\ config = NoConfig
    /\ isWarmup = FALSE
    /\ apiKey = FALSE
    /\ ExamFresh

\* ---------------------------------------------------------------------------
\* App: handleHint, handleChat
\* ---------------------------------------------------------------------------

ChatMessage(role, words) == [ role |-> role, text |-> words ]

\* What the student types and what the tutor and the coach answer.
Queries == { "Why?", "How?" }

Answers == { "Because.", "Like this." }

AssembledProblems ==
    << [ id |-> Id("real", 0), hints |-> <<>>, solutionChat |-> <<>> ],
       [ id |-> Id("ai", 0), hints |-> <<>>, solutionChat |-> <<>> ] >>

\* The ids a card can hand to a handler; the last is of no problem of the exam.
CardIds == { Id("real", 0), Id("ai", 0), Id("quiz", 0) }

\* state.problems.find(x => x.id === id)
Find(list, id) ==
    LET hits == { k \in DOMAIN list : list[k].id = id }
    IN  IF hits = {} THEN 0 ELSE CHOOSE k \in hits : \A j \in hits : k <= j

\* prev.problems.map(x => x.id === id ? { ...x, hints: [...x.hints, hint] } : x)
WithHint(list, id, hint) ==
    [ k \in DOMAIN list |->
        IF list[k].id = id THEN [ list[k] EXCEPT !.hints = Append(@, hint) ]
        ELSE list[k] ]

\* prev.problems.map(x => x.id === id ? { ...x, solutionChat: history } : x)
WithChat(list, id, history) ==
    [ k \in DOMAIN list |->
        IF list[k].id = id THEN [ list[k] EXCEPT !.solutionChat = history ]
        ELSE list[k] ]

Without(list, k) == SubSeq(list, 1, k - 1) \o SubSeq(list, k + 1, Len(list))

\* ------------------------------------------------------- the exam view

\* ExamMode, TimerMode (types.ts)
INSTANT == "Instant Feedback"
ALL_AT_END == "Submit All at End"
WARMUP == "Warmup Mode"
ExamModes == { INSTANT, ALL_AT_END, WARMUP }
TIMED == "Standard"
CUSTOM == "Custom"
UNTIMED == "Untimed"
TimerModes == { TIMED, CUSTOM, UNTIMED }

\* Texts are held character by character; Undefined (no characters) stands
\* for undefined and for the empty string, which the view treats alike
\* (!selected, problem.correctOption ? ... : "").
SKIPPED == <<"S", "K", "I", "P", "P", "E", "D">>

\* const labels = ['A', 'B', 'C', 'D', 'E']: the buttons that are clicked.
Labels == { <<"A">>, <<"B">> }

\* The correctOption a Problem can carry: types.ts says a letter; the
\* archive's /i patterns and data.correctOption?.toString() give any text.
CorrectOptions == { <<"B">>, <<"b">>, <<SP, "B">>, <<>>, SKIPPED }

\* A Problem as the view reads it; isCorrect is absent (falsy) before an
\* answer is recorded.
ShownProblem(n, option) ==
    [ id |-> Id("real", n), correctOption |-> option,
      userAnswer |-> Undefined, isCorrect |-> FALSE ]

\* What generateExam or generateMiniQuiz can resolve to: no problem (every
\* slot gave up: part_002 line 148) or some.
ExamResults ==
    UNION { { [ k \in 1..n |-> ShownProblem(k - 1, IF k = 1 THEN a ELSE rest[k]) ] :
                a \in CorrectOptions, rest \in [ 1..n -> { <<"B">>, <<"b">> } ] } :
            n \in 0..MaxShown }

\* part_000 line 34
CorrectOpt(problem) ==
    [ k \in DOMAIN Trim(problem.correctOption) |->
         ToUpperCase(Trim(problem.correctOption)[k]) ]

\* handleAnswer: part_003 lines 86-91
WithAnswer(list, id, ans) ==
    [ k \in DOMAIN list |->
        IF list[k].id = id
          THEN [ list[k] EXCEPT !.userAnswer = ans,
                                !.isCorrect = (ans = list[k].correctOption) ]
          ELSE list[k] ]

\* const currentProblem = state.problems[state.currentProblemIndex]
CurrentProblem == stateProblems[currentProblemIndex + 1]

IsCountdown == timerMode \in { TIMED, CUSTOM }

\* The exam view with its card and timer is on screen.
ExamShown == view = "EXAM" /\ mounted

\* App renders the exam view again after a change of its state: finishExam
\* is a new function, so ExamTimer's effect (dependencies mode, onExpire)
\* clears its interval and sets a new one. (ExamTimer.tsx lines 15-32,
\* part_003 344)
Rerendered == interval' = (timerMode # UNTIMED)

CardKept == UNCHANGED <<selected, submittedInstant, skipped>>

SettingsKept == UNCHANGED <<examMode, timerMode, totalSeconds>>

\* setState(prev => ({ ...prev, view: 'LOADING' })) was done and the
\* generation is awaited; the settings are any.
ViewCall ==
    /\ view = "LOADING"
    /\ stateProblems = <<>>
    /\ currentProblemIndex = 0
    /\ examMode \in ExamModes
    /\ timerMode \in TimerModes
    /\ totalSeconds \in 1..MaxSeconds
    /\ analyzing = FALSE
    /\ awaited = 0
    /\ finishes = 0
    /\ mounted = FALSE
    /\ selected = Undefined
    /\ submittedInstant = FALSE
    /\ skipped = FALSE
    /\ secondsLeft = 0
    /\ interval = FALSE
    /\ expired = 0
    /\ calls = <<>>
    /\ issued = 0

\* startExamWithConfig lines 60-66 (startTopicQuiz lines 140-146): the
\* generation resolved. The exam view renders: ProblemCard reads
\* problem.userAnswer for its first state (part_000 line 24), which throws
\* when there is no current problem, and then nothing is mounted; else the
\* card and, unless untimed, the timer with its first interval are mounted.
ExamResolves ==
    /\ view = "LOADING"
    /\ \E list \in ExamResults :
         /\ stateProblems' = list
         /\ mounted' = (list # <<>>)
         /\ selected' = IF list # <<>> THEN list[1].userAnswer ELSE Undefined
         /\ interval' = (list # <<>> /\ timerMode # UNTIMED)
    /\ view' = "EXAM"
    /\ currentProblemIndex' = 0
    /\ submittedInstant' = FALSE
    /\ skipped' = FALSE
    /\ secondsLeft' = totalSeconds
    /\ SettingsKept
    /\ UNCHANGED <<analyzing, awaited, finishes, expired, calls, issued>>
    /\ UNCHANGED <<hvars, fvars, cvars, nvars, rvars, jvars, gvars, evars>>

\* startExamWithConfig lines 67-70: the generation rejected.
ExamRejects ==
    /\ view = "LOADING"
    /\ view' = "SETUP"
    /\ UNCHANGED <<stateProblems, currentProblemIndex, analyzing, awaited, finishes,
                   mounted, secondsLeft, interval, expired, calls, issued>>
    /\ CardKept
    /\ SettingsKept
    /\ UNCHANGED <<hvars, fvars, cvars, nvars, rvars, jvars, gvars, evars>>

\* handleSelect: part_000 lines 65-72 (showFeedback is false in the exam view)
HandleSelect ==
    /\ ExamShown
    /\ ~(submittedInstant /\ examMode \in { INSTANT, WARMUP })
    /\ ~skipped
    /\ \E opt \in Labels :
         /\ selected' = opt
         /\ IF examMode = ALL_AT_END
              THEN /\ stateProblems' = WithAnswer(stateProblems, CurrentProblem.id, opt)
                   /\ Rerendered
              ELSE UNCHANGED <<stateProblems, interval>>
    /\ UNCHANGED <<view, currentProblemIndex, analyzing, awaited, finishes, mounted,
                   submittedInstant, skipped, secondsLeft, expired, calls, issued>>
    /\ SettingsKept
    /\ UNCHANGED <<hvars, fvars, cvars, nvars, rvars, jvars, gvars, evars>>

\* handleInstantSubmit: part_000 lines 74-78; the button is rendered by
\* lines 196-210.
HandleInstantSubmit ==
    /\ ExamShown
    /\ examMode \in { INSTANT, WARMUP }
    /\ ~submittedInstant
    /\ selected # Undefined
    /\ submittedInstant' = TRUE
    /\ stateProblems' = WithAnswer(stateProblems, CurrentProblem.id, selected)
    /\ Rerendered
    /\ UNCHANGED <<view, currentProblemIndex, analyzing, awaited, finishes, mounted,
                   selected, skipped, secondsLeft, expired, calls, issued>>
    /\ SettingsKept
    /\ UNCHANGED <<hvars, fvars, cvars, nvars, rvars, jvars, gvars, evars>>

\* handleSkip: part_000 lines 80-84; the button is rendered in warmup mode.
HandleSkip ==
    /\ ExamShown
    /\ examMode = WARMUP
    /\ ~submittedInstant
    /\ skipped' = TRUE
    /\ submittedInstant' = TRUE
    /\ stateProblems' = WithAnswer(stateProblems, CurrentProblem.id, SKIPPED)
    /\ Rerendered
    /\ UNCHANGED <<view, currentProblemIndex, analyzing, awaited, finishes, mounted,
                   selected, secondsLeft, expired, calls, issued>>
    /\ SettingsKept
    /\ UNCHANGED <<hvars, fvars, cvars, nvars, rvars, jvars, gvars, evars>>

Min(a, b) == IF a < b THEN a ELSE b

Max(a, b) == IF a > b THEN a ELSE b

\* The Next button: part_003 lines 386-390, rendered when the problem is
\* not the last. The one ProblemCard of lines 357-365 has no key: it stays
\* mounted with its state and gets the next problem as a prop.
ClickNext ==
    /\ ExamShown
    /\ currentProblemIndex # Len(stateProblems) - 1
    /\ currentProblemIndex' = Min(Len(stateProblems) - 1, currentProblemIndex + 1)
    /\ Rerendered
    /\ UNCHANGED <<stateProblems, view, analyzing, awaited, finishes, mounted,
                   secondsLeft, expired, calls, issued>>
    /\ CardKept
    /\ SettingsKept
    /\ UNCHANGED <<hvars, fvars, cvars, nvars, rvars, jvars, gvars, evars>>

\* The Previous button: part_003 lines 368-372, disabled at index 0.
ClickPrevious ==
    /\ ExamShown
    /\ currentProblemIndex # 0
    /\ currentProblemIndex' = Max(0, currentProblemIndex - 1)
    /\ Rerendered
    /\ UNCHANGED <<stateProblems, view, analyzing, awaited, finishes, mounted,
                   secondsLeft, expired, calls, issued>>
    /\ CardKept
    /\ SettingsKept
    /\ UNCHANGED <<hvars, fvars, cvars, nvars, rvars, jvars, gvars, evars>>

\* finishExam up to its await: part_003 lines 122-123. setAnalyzing(true)
\* renders App again when analyzing was false; with the same value React
\* does not render, and an interval that was cleared stays cleared.
FinishExamCalled(cleared) ==
    /\ finishes' = finishes + 1
    /\ awaited' = awaited + 1
    /\ analyzing' = TRUE
    /\ IF analyzing
         THEN interval' = (interval /\ ~cleared)
         ELSE Rerendered

\* The Finish Exam button: part_003 lines 380-384, rendered on the last
\* problem.
ClickFinish ==
    /\ ExamShown
    /\ currentProblemIndex = Len(stateProblems) - 1
    /\ finishes < MaxFinishes
    /\ FinishExamCalled(FALSE)
    /\ UNCHANGED <<stateProblems, view, currentProblemIndex, mounted, secondsLeft,
                   expired, calls, issued>>
    /\ CardKept
    /\ SettingsKept
    /\ UNCHANGED <<hvars, fvars, cvars, nvars, rvars, jvars, gvars, evars>>

\* The callback of the interval: ExamTimer.tsx lines 16-29 (the timer is
\* rendered in the two countdown modes only: part_003 line 340).
Tick ==
    /\ ExamShown
    /\ interval
    /\ IsCountdown
    /\ IF secondsLeft <= 1
         THEN /\ finishes < MaxFinishes
              /\ secondsLeft' = 0
              /\ expired' = expired + 1
              /\ FinishExamCalled(TRUE)
         ELSE /\ secondsLeft' = secondsLeft - 1
              /\ UNCHANGED <<interval, expired, finishes, awaited, analyzing>>
    /\ UNCHANGED <<stateProblems, view, currentProblemIndex, mounted, calls, issued>>
    /\ CardKept
    /\ SettingsKept
    /\ UNCHANGED <<hvars, fvars, cvars, nvars, rvars, jvars, gvars, evars>>

\* finishExam after analyzePerformance settles (it resolves on every path
\* once the key is set): part_003 lines 124-131. The exam view leaves the
\* screen: its card and timer are unmounted and the interval is cleared.
AnalysisSettles ==
    /\ awaited > 0
    /\ awaited' = awaited - 1
    /\ analyzing' = FALSE
    /\ view' = "ANALYSIS"
    /\ mounted' = FALSE
    /\ interval' = FALSE
    /\ selected' = Undefined
    /\ submittedInstant' = FALSE
    /\ skipped' = FALSE
    /\ UNCHANGED <<stateProblems, currentProblemIndex, finishes, secondsLeft,
                   expired, calls, issued>>
    /\ SettingsKept
    /\ UNCHANGED <<hvars, fvars, cvars, nvars, rvars, jvars, gvars, evars>>

NextView ==
    \/ ExamResolves
    \/ ExamRejects
    \/ HandleSelect
    \/ HandleInstantSubmit
    \/ HandleSkip
    \/ ClickNext
    \/ ClickPrevious
    \/ ClickFinish
    \/ Tick
    \/ AnalysisSettles

ViewIdle ==
    /\ view = "SETUP"
    /\ currentProblemIndex = 0
    /\ examMode = INSTANT
    /\ timerMode = UNTIMED
    /\ totalSeconds = 0
    /\ analyzing = FALSE
    /\ awaited = 0
    /\ finishes = 0
    /\ mounted = FALSE
    /\ selected = Undefined
    /\ submittedInstant = FALSE
    /\ skipped = FALSE
    /\ secondsLeft = 0
    /\ interval = FALSE
    /\ expired = 0

AppCall ==
    /\ stateProblems = AssembledProblems
    /\ calls = <<>>
    /\ issued = 0
    /\ ViewIdle

\* handleHint up to its await: lines 94-96
HandleHint ==
    /\ issued < MaxCalls
    /\ issued' = issued + 1
    /\ \E id \in CardIds :
         calls' = IF Find(stateProblems, id) = 0 THEN calls
                  ELSE Append(calls, [ handler |-> "handleHint", id |-> id,
                                       newHistory |-> <<>> ])
    /\ UNCHANGED stateProblems
    /\ UNCHANGED uvars
    /\ UNCHANGED <<hvars, fvars, cvars, nvars, rvars, jvars, gvars, evars>>

\* handleHint after getProblemHint settles: lines 96-100
HintSettles ==
    /\ \E k \in DOMAIN calls :
         /\ calls[k].handler = "handleHint"
         /\ calls' = Without(calls, k)
         /\ \/ \E hint \in Answers :
                 stateProblems' = WithHint(stateProblems, calls[k].id, hint)
            \/ UNCHANGED stateProblems
    /\ UNCHANGED issued
    /\ UNCHANGED uvars
    /\ UNCHANGED <<hvars, fvars, cvars, nvars, rvars, jvars, gvars, evars>>

\* handleChat up to its await: lines 104-114
HandleChat ==
    /\ issued < MaxCalls
    /\ issued' = issued + 1
    /\ \E id \in CardIds, query \in Queries :
         LET k == Find(stateProblems, id)
         IN  IF k = 0
               THEN UNCHANGED <<stateProblems, calls>>
               ELSE LET newHistory == Append(stateProblems[k].solutionChat,
                                             ChatMessage("user", query))
                    IN  /\ stateProblems' = WithChat(stateProblems, id, newHistory)
                        /\ calls' = Append(calls, [ handler |-> "handleChat", id |-> id,
                                                    newHistory |-> newHistory ])
    /\ UNCHANGED uvars
    /\ UNCHANGED <<hvars, fvars, cvars, nvars, rvars, jvars, gvars, evars>>

\* handleChat after getSolutionExplanation settles: lines 114-118
ChatSettles ==
    /\ \E k \in DOMAIN calls :
         /\ calls[k].handler = "handleChat"
         /\ calls' = Without(calls, k)
         /\ \/ \E answer \in Answers :
                 stateProblems' =
                    WithChat(stateProblems, calls[k].id,
                             Append(calls[k].newHistory, ChatMessage("model", answer)))
            \/ UNCHANGED stateProblems
    /\ UNCHANGED issued
    /\ UNCHANGED uvars
    /\ UNCHANGED <<hvars, fvars, cvars, nvars, rvars, jvars, gvars, evars>>

NextApp ==
    \/ HandleHint
    \/ HintSettles
    \/ HandleChat
    \/ ChatSettles

AppIdle ==
    /\ stateProblems = <<>>
    /\ calls = <<>>
    /\ issued = 0
    /\ ViewIdle

\* -------------------------------------------------------- specifications

\* No fetchAoPSProblem call is followed step by step.
FetchIdle ==
    /\ doc = [ content |-> FALSE, children |-> <<>> ]
    /\ relay = [ primary |-> Response("networkError", 0),
                 backup  |-> Response("networkError", 0) ]
    /\ requests = <<>>
    /\ htmlLength = -1
    /\ aiCalls = <<>>
    /\ fpc = "idle"
    /\ contentDiv = <<>>
    /\ curr = 0
    /\ mode = "unset"
    /\ questionAccumulator = <<>>
    /\ solutionAccumulator = <<>>
    /\ questionData = [ html |-> <<>>, images |-> <<>> ]
    /\ solutionData = [ html |-> <<>>, images |-> <<>> ]
    /\ correctOption = ""
    /\ thrown = NoError
    /\ returnValue = Pending

\* No harvester runs.
HarvestIdle ==
    /\ queue = <<>>
    /\ stopSignal = FALSE
    /\ i = 0
    /\ success = 0
    /\ failed = 0
    /\ pc = "idle"
    /\ taskCalls = <<>>
    /\ lastDone = NoCall
    /\ ncalls = 0
    /\ fetched = <<>>
    /\ inflight = {}
    /\ settled = [ o \in Outcomes |-> 0 ]
    /\ outcome = "none"
    /\ waits = 0
    /\ halted = FALSE
    /\ everSet = FALSE
    /\ stopSet = [ tasks |-> 0, at |-> "start" ]
    /\ clearedInFlight = FALSE

\* None of the operations followed on their own runs.
OthersIdle ==
    /\ NormalizerIdle
    /\ RetryIdle
    /\ ParseIdle
    /\ GenerateIdle
    /\ ExamIdle
    /\ AppIdle

\* A processPrefetchQueue run.
Init == HarvestInit /\ FetchIdle /\ CatalogIdle /\ OthersIdle

Spec == Init /\ [][Next]_vars

\* A fetchAoPSProblem call on a page of the wiki.
InitFetch ==
    /\ FetchCall(Docs, RelaysUpOrDown)
    /\ HarvestIdle /\ CatalogIdle /\ OthersIdle

SpecFetch == InitFetch /\ [][NextFetch]_vars

\* A fetchAoPSProblem call on a page with a question and a solution.
InitExtract ==
    /\ FetchCall(SolvedDocs, RelaysUpOrDown)
    /\ HarvestIdle /\ CatalogIdle /\ OthersIdle

SpecExtract == InitExtract /\ [][NextFetch]_vars

\* A fetchAoPSProblem call on a small page, whatever the relays answer.
InitProxy ==
    /\ FetchCall(DocsUpTo(1), Relays)
    /\ HarvestIdle /\ CatalogIdle /\ OthersIdle

SpecProxy == InitProxy /\ [][NextFetch]_vars

\* A generateFullCatalogQueue call.
InitCatalog ==
    /\ catalog = CatalogStart
    /\ indices = {}
    /\ testQueue = <<>>
    /\ tpc = "idle"
    /\ HarvestIdle
    /\ FetchIdle
    /\ OthersIdle

SpecCatalog == InitCatalog /\ [][NextCatalog]_vars

\* A generateTestQueue call, after its generateFullCatalogQueue() returned.
\* Math.random() gives every index again and again, so an index not picked
\* yet is picked in the end.
InitTest ==
    /\ catalog = [ CatalogStart EXCEPT !.loop = "idle" ]
    /\ indices = {}
    /\ testQueue = <<>>
    /\ tpc = "pick"
    /\ HarvestIdle
    /\ FetchIdle
    /\ OthersIdle

SpecTest ==
    InitTest /\ [][NextTest]_vars /\ WF_vars(Pick) /\ WF_vars(Return)

\* The operations below leave the harvester, the fetch and the catalog alone.
RestIdle == HarvestIdle /\ FetchIdle /\ CatalogIdle /\ ExamIdle /\ AppIdle

\* cleanAndRestoreLatex applied to a markup, then to its own output.
InitClean ==
    CleanCall /\ RestIdle /\ RetryIdle /\ ParseIdle /\ GenerateIdle

SpecClean == InitClean /\ [][NextClean]_vars

\* A retryWithBackoff call. The promise of fn settles and the timer of wait
\* fires, so each step that is due is taken.
InitRetry ==
    /\ RetryCall(0..MaxRetries)
    /\ RestIdle /\ NormalizerIdle /\ ParseIdle /\ GenerateIdle

SpecRetry ==
    InitRetry /\ [][NextRetry]_vars
       /\ WF_vars(RetryAttempt) /\ WF_vars(RetryWait)

\* A parseJsonFromResponse call.
InitParse ==
    ParseCall /\ RestIdle /\ NormalizerIdle /\ RetryIdle /\ GenerateIdle

SpecParse == InitParse /\ [][NextParse]_vars

\* A fetchMockProblem or generateAIProblem call whose request is answered.
InitGenerate ==
    GenerateCall /\ RestIdle /\ NormalizerIdle /\ RetryIdle /\ ParseIdle

SpecGenerate == InitGenerate /\ [][NextGenerate]_vars

\* The operations below leave all of the above alone.
BelowIdle ==
    /\ HarvestIdle /\ FetchIdle /\ CatalogIdle
    /\ NormalizerIdle /\ RetryIdle /\ ParseIdle /\ GenerateIdle

\* A generateExam or generateMiniQuiz call. Every promise the function
\* awaits settles (a fetch, a request with its retries, a timer), so each
\* step that is due is taken.
InitExam == ExamCall /\ BelowIdle /\ AppIdle

SpecExam ==
    InitExam /\ [][NextExam]_vars
       /\ WF_vars(RealAttempt) /\ WF_vars(RealSlotEnd) /\ WF_vars(MockSlot)
       /\ WF_vars(AiSlot) /\ WF_vars(LoopEnds) /\ WF_vars(Grade)
       /\ WF_vars(QuizSlot) /\ WF_vars(QuizGrade)

\* The handlers of App on an assembled exam, called in any order.
InitApp == AppCall /\ BelowIdle /\ ExamIdle

\* A generateExam call in warmup mode, on the pages of each problem number.
WarmupCall ==
    /\ entry = "generateExam"
    /\ epc = "real"
    /\ isWarmup = TRUE
    /\ config \in Configs
    /\ apiKey \in BOOLEAN
    /\ urlPool \in WarmupPools
    /\ ExamFresh

NextWarmup ==
    \/ RealAttempt
    \/ RealSlotEnd
    \/ MockSlot
    \/ AiSlot
    \/ LoopEnds
    \/ Grade

InitWarmup == WarmupCall /\ BelowIdle /\ AppIdle

SpecWarmup == InitWarmup /\ [][NextWarmup]_vars

SpecApp == InitApp /\ [][NextApp]_vars

\* One exam from the moment its generation is awaited to the analysis view.
InitView == ViewCall /\ BelowIdle /\ ExamIdle

SpecView == InitView /\ [][NextView]_vars

\* ------------------------------------------- claims on the harvester

PostKinds == { "SUCCESS", "FAILED", "ERROR" }

SettledTotal == settled["problem"] + settled["null"] + settled["raise"]

\* C1: the flag is read at every task boundary and nowhere else. While the
\* flag has stayed true since it was set during task n's turn (or before
\* the run, n = 0), no more than n fetches exist; the run that meets it at
\* a boundary ends with exactly n tasks fetched and settled, whatever the
\* flag did before; and from then on no fetch is started and onProgress is
\* not called.
C1_StopAtBoundary ==
    /\ [](stopSignal => Len(fetched) <= stopSet.tasks)
    /\ [](halted => /\ pc = "done"
                    /\ Len(fetched) = stopSet.tasks
                    /\ SettledTotal = stopSet.tasks
                    /\ inflight = {})
    /\ [][halted => (fetched' = fetched /\ ncalls' = ncalls)]_vars

\* C1 witness: 5 tasks, the flag set during the wait that follows task 2
\* (after it had been set and cleared while a fetch was in flight), the
\* run halted with 2 tasks processed.
C1_Witness ==
    /\ halted
    /\ Len(queue) = 5
    /\ Len(fetched) = 2
    /\ stopSet = [ tasks |-> 2, at |-> "waiting" ]
    /\ clearedInFlight

\* C2: in a run that returns with the flag never set, every task was
\* fetched, the last reported stats count the Problems as success and the
\* null results and rejections as failed, and each task moved exactly one
\* counter by one.
C2_CountersMatchOutcomes ==
    (pc = "done" /\ ~everSet /\ Len(queue) > 0) =>
        /\ Len(fetched) = Len(queue)
        /\ lastDone.stats.success = settled["problem"]
        /\ lastDone.stats.failed = settled["null"] + settled["raise"]
        /\ success + failed = Len(queue)

\* C3: the reports made for a task are a pre-attempt report, made before
\* its fetch, followed by post-attempt reports (at least one once the task
\* is over); every snapshot has total = queue.length and the task's year
\* and exam; the pre-attempt snapshot has the counters of the last report
\* of the task before, a post-attempt snapshot the counters after the
\* increment it reports; a Problem comes only with the SUCCESS report of a
\* task whose fetch returned it.
C3_ProgressReports ==
    /\ \A k \in DOMAIN taskCalls :
          LET c == taskCalls[k] IN
          /\ c.at = i
          /\ c.stats.total = Len(queue)
          /\ c.stats.currentYear = queue[i + 1].year
          /\ c.stats.currentExam = queue[i + 1].examType
          /\ (k = 1) <=> (c.log[1] = "Fetching")
          /\ (k > 1) <=> (c.log[1] \in PostKinds)
          /\ (k = 1) =>
                /\ c.stats.success =
                      (IF lastDone = NoCall THEN 0 ELSE lastDone.stats.success)
                /\ c.stats.failed =
                      (IF lastDone = NoCall THEN 0 ELSE lastDone.stats.failed)
          /\ (k > 1) =>
                LET b == taskCalls[k - 1] IN
                /\ c.stats.success =
                      b.stats.success + (IF c.log[1] = "SUCCESS" THEN 1 ELSE 0)
                /\ c.stats.failed =
                      b.stats.failed + (IF c.log[1] = "SUCCESS" THEN 0 ELSE 1)
          /\ (c.result # NoResult) =>
                /\ c.log[1] = "SUCCESS"
                /\ k = 2
                /\ outcome = "problem"
                /\ c.result = <<ProblemOf(queue[i + 1])>>
    /\ (pc = "fetching") => Len(taskCalls) = 1
    /\ (pc \in { "success", "nodata" }) => Len(taskCalls) = 1
    /\ (pc = "waiting") => Len(taskCalls) >= 2

\* C3 witness: the third task of a queue succeeded after a success and a
\* failure, and both of its reports are made.
C3_Witness ==
    /\ pc = "waiting"
    /\ i = 2
    /\ Len(taskCalls) = 2
    /\ taskCalls[1].stats.success = 1
    /\ taskCalls[1].stats.failed = 1
    /\ taskCalls[2].result = <<ProblemOf(queue[3])>>
    /\ taskCalls[2].stats.success = 2

\* C4: at most one fetch is in flight; the tasks fetched are the queue's
\* first ones, in queue order, each once and none passed over; the fetch of
\* a task starts only after the post-attempt report of the task before it;
\* a run that returns without having met the flag has fetched every task.
C4_Sequential ==
    /\ Cardinality(inflight) <= 1
    /\ fetched = [ k \in 1..Len(fetched) |-> k - 1 ]
    /\ (pc = "fetching") => inflight = {i} /\ fetched[Len(fetched)] = i
    /\ (pc = "fetching" /\ i > 0) =>
          /\ lastDone.at = i - 1
          /\ lastDone.log[1] \in PostKinds
    /\ (pc = "done" /\ ~halted) => Len(fetched) = Len(queue)

\* C4 witness: the fourth task is in flight, alone.
C4_Witness ==
    /\ pc = "fetching"
    /\ inflight = {3}
    /\ fetched = <<0, 1, 2, 3>>

\* Did the caller set the flag while the fetch of queue[i] was in flight,
\* and is it still set?
SetInFlight ==
    /\ stopSignal
    /\ stopSet = [ tasks |-> i + 1, at |-> "fetching" ]

\* C5 as stated: a fetch that settles after the flag was set in its flight
\* is discarded, that is neither counted nor reported with a Problem.
C5_ResultDiscarded ==
    (SetInFlight /\ pc \in { "success", "nodata", "catch", "waiting" }) =>
        /\ success = taskCalls[1].stats.success
        /\ failed = taskCalls[1].stats.failed
        /\ \A k \in DOMAIN taskCalls : taskCalls[k].result = NoResult

\* C5 amended: a fetch in whose flight the flag was set stays in flight,
\* settles, and is counted and reported like any other: a Problem adds one
\* to success and is handed to onProgress, a null result or a rejection
\* adds to failed.
C5_ResultKept ==
    /\ (SetInFlight /\ pc = "fetching") => inflight = {i}
    /\ (SetInFlight /\ pc = "waiting") =>
          /\ inflight = {}
          /\ outcome \in Outcomes
          /\ Len(taskCalls) >= 2
          /\ taskCalls[2].log[1] \in PostKinds
          /\ (outcome = "problem") =>
                /\ success = taskCalls[1].stats.success + 1
                /\ taskCalls[2].result = <<ProblemOf(queue[i + 1])>>
          /\ (outcome # "problem") =>
                /\ success = taskCalls[1].stats.success
                /\ failed >= taskCalls[1].stats.failed + 1

\* C5 witness: the flag was set during the flight of the second task, which
\* then returned a Problem that was counted and reported.
C5_Witness ==
    /\ SetInFlight
    /\ pc = "waiting"
    /\ i = 1
    /\ outcome = "problem"
    /\ success = taskCalls[1].stats.success + 1
    /\ taskCalls[2].result # NoResult

\* C6: every task that was processed is followed by one completed wait,
\* whatever its outcome and also after the last task: when the loop is at a
\* boundary or has ended, as many waits have completed as fetches were
\* started, and while task i+1 is being processed exactly i waits have
\* completed, so that a wait lies between any two fetch starts and before
\* every stop check but the first.
C6_PacingDelay ==
    /\ (pc \in { "loop", "done" }) => waits = Len(fetched)
    /\ (pc \in { "loop", "pre", "fetching", "success", "nodata", "catch",
                  "waiting" }) => waits = i
    /\ (pc = "fetching") => Len(fetched) = waits + 1

\* C6 witness: a run over three tasks or more, with a success, a null
\* result and a rejection among them, has returned after as many waits as
\* tasks.
C6_Witness ==
    /\ pc = "done"
    /\ Len(queue) >= 3
    /\ waits = Len(queue)
    /\ \A o \in Outcomes : settled[o] > 0

\* ------------------------------------------- claims on fetchAoPSProblem

\* C7: fetchAoPSProblem never raises to its caller: a call that has returned
\* handed back a Problem or null, and every error thrown on the way (both
\* relays failed, no content root, no question content, no AI client) came
\* out as null.
C7_NeverRaises ==
    /\ returnValue.kind \in { "pending", "problem", "null" }
    /\ fpc = "returned" =>
         /\ returnValue.kind \in { "problem", "null" }
         /\ thrown # NoError => returnValue.kind = "null"
         /\ thrown = NoError => returnValue.kind = "problem"

C7_Witness ==
    /\ fpc = "returned"
    /\ thrown = "No question content found"
    /\ returnValue.kind = "null"

\* C8: no Problem is partially filled: a walk that ends with an empty
\* question accumulator gives null, and a returned Problem has a questionHtml
\* and a solutionHtml with content, the solution being the placeholder
\* paragraph "Solution parsing failed." when the solution accumulator ended
\* empty.
C8_NeverPartial ==
    /\ (fpc = "returned" /\ mode # "unset" /\ questionAccumulator = <<>>) =>
          returnValue.kind = "null"
    /\ returnValue.kind = "problem" =>
          /\ questionAccumulator # <<>>
          /\ Len(returnValue.problem.questionHtml) = 1
          /\ returnValue.problem.questionHtml[1].kids # <<>>
          /\ Len(returnValue.problem.solutionHtml) = 1
          /\ returnValue.problem.solutionHtml[1].kids # <<>>
          /\ solutionAccumulator = <<>> =>
                returnValue.problem.solutionHtml[1].kids =
                   << Element("P", "", <<>>, <<>>,
                        <<"Solution", SP, "parsing", SP, "failed.">>, <<>>) >>

C8_Witness ==
    /\ returnValue.kind = "problem"
    /\ solutionAccumulator = <<>>
    /\ returnValue.problem.solutionHtml[1].kids[1].text =
          <<"Solution", SP, "parsing", SP, "failed.">>

ModeRank(m) ==
    CASE m = "unset" -> 0
      [] m = "question" -> 1
      [] m = "solution" -> 2
      [] m = "done" -> 3

\* A level-2 heading titled "See also", in either spelling.
SeeAlsoHeading(el) ==
    /\ el.tag = "H2"
    /\ Trim(el.text) \in { <<"See", SP, "also">>, <<"See", SP, "Also">> }

\* A level-2 heading with "Solution" in its title or in its id.
SolutionHeading(el) ==
    /\ el.tag = "H2"
    /\ \/ \E k \in DOMAIN el.text : el.text[k] = "Solution"
       \/ \E k \in DOMAIN el.id : el.id[k] = "Solution"
       \/ el.id = <<>> /\ \E k \in DOMAIN el.headline : el.headline[k] = "Solution"

\* Where the walk of contentDiv starts, meets its first "See also" heading
\* (Len + 1: none) and, before that, its first Solution heading.
WalkStart == StartIndex(contentDiv)

WalkStop ==
    LET S == { k \in WalkStart..Len(contentDiv) :
                 SeeAlsoHeading(contentDiv[k]) }
    IN  IF S = {} THEN Len(contentDiv) + 1
        ELSE CHOOSE k \in S : \A j \in S : k <= j

FirstSolution ==
    LET S == { k \in WalkStart..(WalkStop - 1) :
                 SolutionHeading(contentDiv[k]) }
    IN  IF S = {} THEN WalkStop
        ELSE CHOOSE k \in S : \A j \in S : k <= j

Accumulated == questionAccumulator \o solutionAccumulator

\* C9: the walk's mode only moves forward, question -> solution -> done,
\* starting in question; a "See also" heading met in either mode ends the
\* walk on the spot, and from then on nothing is added to an accumulator,
\* so no accumulator holds anything that comes after that heading.
C9_ForwardOnly ==
    /\ [](fpc = "walk" /\ curr = WalkStart => mode = "question")
    /\ [](mode # "unset" =>
            /\ \A k \in DOMAIN Accumulated :
                  \/ Accumulated[k].n = 0
                  \/ /\ WalkStop <= Len(contentDiv)
                        => Accumulated[k].n < contentDiv[WalkStop].n
            /\ Len(Accumulated) <= WalkStop - WalkStart)
    /\ [][ /\ ModeRank(mode') >= ModeRank(mode)
           /\ mode = "done" =>
                 UNCHANGED <<mode, questionAccumulator, solutionAccumulator>>
           /\ ( /\ fpc = "walk"
                /\ curr <= Len(contentDiv)
                /\ SeeAlsoHeading(contentDiv[curr]) ) =>
                 /\ mode' = "done"
                 /\ fpc' = "walked"
                 /\ UNCHANGED <<questionAccumulator, solutionAccumulator>>
         ]_vars

\* A "See also" heading met in solution mode, with a Solution heading after
\* it.
C9_Witness ==
    /\ mode = "done"
    /\ returnValue.kind = "problem"
    /\ questionAccumulator # <<>>
    /\ solutionAccumulator # <<>>
    /\ curr < Len(contentDiv)
    /\ SeeAlsoHeading(contentDiv[curr])
    /\ SolutionHeading(contentDiv[curr + 1])

\* C10: at every point of the walk the question accumulator is, verbatim and
\* in order, the siblings visited before the first Solution heading, and the
\* solution accumulator the siblings visited from that heading on, each
\* Solution heading replaced by an h3 with its trimmed title; the markup of
\* a Solution or "See also" heading is in neither.
C10_VerbatimOnce ==
    mode # "unset" =>
       LET upto == IF curr < WalkStop THEN curr ELSE WalkStop
           sol  == IF FirstSolution < upto THEN FirstSolution ELSE upto
       IN  /\ curr <= WalkStop
           /\ questionAccumulator = SubSeq(contentDiv, WalkStart, sol - 1)
           /\ solutionAccumulator =
                 [ k \in 1..(upto - sol) |->
                     IF SolutionHeading(contentDiv[sol + k - 1])
                       THEN SynthH3(Trim(contentDiv[sol + k - 1].text))
                       ELSE contentDiv[sol + k - 1] ]
           /\ \A k \in DOMAIN Accumulated :
                 ~SolutionHeading(Accumulated[k]) /\ ~SeeAlsoHeading(Accumulated[k])

\* A walk with question content, a Solution heading, solution content and a
\* "See also" heading.
C10_Witness ==
    /\ fpc = "walked"
    /\ mode = "done"
    /\ Len(questionAccumulator) >= 1
    /\ Len(solutionAccumulator) >= 2
    /\ solutionAccumulator[1].tag = "H3"
    /\ solutionAccumulator[1].text = <<"Solution", SP, "1">>
    /\ solutionAccumulator[2].n > 0

\* A level-2 heading identified as "Problem": by its id, by the id of the
\* headline inside it, or by its exact title.
ProblemHeading(el) ==
    /\ el.tag = "H2"
    /\ \/ el.id = <<"Problem">>
       \/ el.headline = <<"Problem">>
       \/ Trim(el.text) = <<"Problem">>

\* The place in contentDiv of the first Problem heading, 0 when there is none.
FirstProblemHeading ==
    LET hs == { k \in DOMAIN contentDiv : ProblemHeading(contentDiv[k]) }
    IN  IF hs = {} THEN 0 ELSE CHOOSE k \in hs : \A j \in hs : k <= j

\* C11: the walk starts at the element right after the first Problem heading,
\* or at the first child when the page has no such heading; neither that
\* heading nor anything before it is accumulated or comes out in
\* questionHtml.
C11_StartAfterProblem ==
    mode # "unset" =>
       /\ curr > FirstProblemHeading
       /\ (fpc = "walk" /\ mode = "question" /\ questionAccumulator = <<>>) =>
             curr = FirstProblemHeading + 1
       /\ FirstProblemHeading > 0 =>
             \A k \in DOMAIN Accumulated :
                \/ Accumulated[k].n = 0
                \/ Accumulated[k].n > contentDiv[FirstProblemHeading].n
       /\ returnValue.kind = "problem" =>
             LET kids == returnValue.problem.questionHtml[1].kids
             IN  /\ kids[1].n = contentDiv[FirstProblemHeading + 1].n
                 /\ FirstProblemHeading > 0 =>
                       \A k \in DOMAIN kids :
                          kids[k].n > contentDiv[FirstProblemHeading].n

\* A page with a paragraph before its Problem heading and one after it.
C11_Witness ==
    /\ returnValue.kind = "problem"
    /\ FirstProblemHeading = 2
    /\ contentDiv[1].tag = "P"
    /\ Len(questionAccumulator) >= 1
    /\ returnValue.problem.questionHtml[1].kids[1].n = 3

\* An element as it stands in a page, whatever its place there.
KindOf(el) == [ el EXCEPT !.n = 0 ]

\* The places in the solution accumulator of the paragraphs with a boxed
\* answer and of those with an answer in prose.
ParasOf(kinds) ==
    { k \in DOMAIN solutionAccumulator :
        KindOf(solutionAccumulator[k]) \in kinds }

FirstOf(places) == CHOOSE k \in places : \A j \in places : k <= j

\* The letter the patterns are to find in the solution, "" for none: that
\* of a \boxed{\textbf{..}}, else of a \boxed{..}, else of the first
\* "answer is".
ExpectedLetter ==
    IF ParasOf({ ParaBoxed }) # {} THEN "C"
    ELSE IF ParasOf({ ParaBoxedPlain }) # {} THEN "B"
    ELSE IF ParasOf({ ParaProse, ParaProseLower }) # {}
      THEN IF KindOf(solutionAccumulator[
                 FirstOf(ParasOf({ ParaProse, ParaProseLower }))]) = ParaProse
             THEN "D" ELSE "a"
    ELSE ""

\* C12: the strategies apply in order and the first match wins: a boxed
\* answer is the result whatever the prose says, the prose pattern counts
\* only without a boxed one, and extractCorrectOptionWithAI is called at most
\* once, exactly when both patterns found nothing.
C12_FirstMatchWins ==
    /\ Len(aiCalls) <= 1
    /\ aiCalls # <<>> => ExpectedLetter = ""
    /\ (fpc \in { "ai", "assemble", "returned" } /\ thrown = NoError) =>
          IF ExpectedLetter # ""
            THEN correctOption = ExpectedLetter /\ aiCalls = <<>>
            ELSE Len(aiCalls) = IF fpc = "ai" THEN 0 ELSE 1
    /\ returnValue.kind = "problem" /\ ExpectedLetter # "" =>
          returnValue.problem.correctOption = ExpectedLetter

\* A solution whose prose names one letter before a boxed answer names
\* another.
C12_Witness ==
    /\ returnValue.kind = "problem"
    /\ returnValue.problem.correctOption = "C"
    /\ \E j \in ParasOf({ ParaProse }), k \in ParasOf({ ParaBoxed }) : j < k

\* C13: the correctOption of a Problem fetchAoPSProblem returns is "" or one
\* upper-case letter of A..E.
C13_OptionIsLetter ==
    returnValue.kind = "problem" =>
       returnValue.problem.correctOption \in { "", "A", "B", "C", "D", "E" }

\* An AI fallback that failed: no client, a call that throws, or a reply
\* without any letter of A..E (the sentinel X among them).
AiFailed(ai) ==
    \/ ai.kind \in { "noClient", "callFails" }
    \/ /\ ai.kind = "reply"
       /\ \A k \in DOMAIN ai.reply :
             ai.reply[k] \notin { "A", "B", "C", "D", "E",
                                  "a", "b", "c", "d", "e" }

\* C14: a failed AI fallback leaves correctOption empty and the Problem is
\* returned all the same; the AI step never makes the result null.
C14_AiFailureKeepsProblem ==
    (fpc = "returned" /\ aiCalls # <<>>) =>
       /\ returnValue.kind = "problem"
       /\ AiFailed(aiCalls[1]) => returnValue.problem.correctOption = ""

\* The primary attempt failed: a request error, a status that is not OK or a
\* body of fewer than 100 characters; the backup attempt failed: a request
\* error, a status that is not OK or no contents.
PrimaryFailed == relay.primary.kind # "ok" \/ relay.primary.len < 100

BackupFailed == relay.backup.kind # "ok" \/ relay.backup.len = 0

RequestsTo(proxy) == { k \in DOMAIN requests : requests[k] = proxy }

\* C15: fetchViaProxy makes at most two requests: one to primary, and one to
\* backup exactly when primary failed; primary's body is returned without a
\* request to backup, and when both fail the call throws.
C15_AtMostTwoRequests ==
    /\ fpc = "start" => requests = <<>>
    /\ fpc \notin { "start", "idle" } =>
          /\ Len(requests) <= 2
          /\ requests[1] = "primary"
          /\ Cardinality(RequestsTo("primary")) = 1
          /\ Cardinality(RequestsTo("backup")) = IF PrimaryFailed THEN 1 ELSE 0
          /\ ~PrimaryFailed => htmlLength = relay.primary.len
          /\ (PrimaryFailed /\ ~BackupFailed) => htmlLength = relay.backup.len
          /\ (PrimaryFailed /\ BackupFailed) =>
                /\ htmlLength = -1
                /\ thrown = "Both proxies failed"
                /\ fpc \in { "thrown", "returned" }

\* Primary is down and backup serves the page.
C15_Witness ==
    /\ relay.primary.kind = "httpError"
    /\ requests = <<"primary", "backup">>
    /\ htmlLength = 100
    /\ returnValue.kind = "problem"

\* C16 as stated: no text of fewer than 100 characters reaches the parser,
\* through either relay.
C16_NoShortText ==
    htmlLength # -1 => htmlLength >= 100

\* C16: a body of fewer than 100 characters from primary is a failure of
\* primary (backup is asked) and primary's text has 100 characters or more;
\* backup's contents is returned at any length but empty.
C16_ShortPrimaryFails ==
    fpc \notin { "start", "idle" } =>
       /\ (relay.primary.kind = "ok" /\ relay.primary.len < 100) =>
             requests = <<"primary", "backup">>
       /\ requests = <<"primary">> => htmlLength >= 100
       /\ htmlLength # -1 => htmlLength > 0
       /\ (requests = <<"primary", "backup">> /\ ~BackupFailed) =>
             htmlLength = relay.backup.len

\* Both relays answer with 99 characters: backup's are parsed.
C16_Witness ==
    /\ relay.primary = [ kind |-> "ok", len |-> 99 ]
    /\ relay.backup = [ kind |-> "ok", len |-> 99 ]
    /\ requests = <<"primary", "backup">>
    /\ htmlLength = 99
    /\ fpc = "returned"

\* A fully-qualified URL: a scheme, then "//" and a host.
IsAbsolute(ref) ==
    /\ Len(ref) >= 3
    /\ ref[1] \in { "https:", "http:" }
    /\ ref[2] = "//"

\* The img src and a href values of an html.
RECURSIVE References(_)
References(html) ==
    UNION { { html[k].body[j].src :
                j \in { j \in DOMAIN html[k].body :
                          /\ html[k].body[j].kind \in { "img", "a" }
                          /\ html[k].body[j].src # <<>> } }
            \cup References(html[k].kids) : k \in DOMAIN html }

\* C20: no img src and no a href in the questionHtml or the solutionHtml of a
\* returned Problem is relative, whatever kind of reference the page held.
C20_NoRelativeReference ==
    returnValue.kind = "problem" =>
       \A ref \in References(returnValue.problem.questionHtml)
                  \cup References(returnValue.problem.solutionHtml) :
          IsAbsolute(ref)

\* -------------------------------------------------- claims on the catalog

\* The exams of the catalog, each as <<level, year, examType>>: the AMC 8
\* family 1985..2025, named AJHSME up to 1998, and the AMC 10 and AMC 12
\* families 2000..2025, one exam in 2000 and 2001, A and B from 2002 on.
CatalogExams ==
    { <<"AMC 8", y, IF y <= 1998 THEN "AJHSME" ELSE "AMC 8">> :
        y \in 1985..2025 }
    \cup { <<"AMC 10", y, "AMC 10">> : y \in { 2000, 2001 } }
    \cup { <<"AMC 10", y, v>> : y \in 2002..2025, v \in { "AMC 10A", "AMC 10B" } }
    \cup { <<"AMC 12", y, "AMC 12">> : y \in { 2000, 2001 } }
    \cup { <<"AMC 12", y, v>> : y \in 2002..2025, v \in { "AMC 12A", "AMC 12B" } }

ExamOf(task) == <<task.level, task.year, task.examType>>

\* The problem number of a task, as its id and its url end.
NumberOf(task) == task.id[3]

\* C17: the queue generateFullCatalogQueue returns holds, for every exam of
\* the catalog and for no other, the problems 1..25 once each; the AMC 8 of
\* a year is on the wiki as AJHSME exactly up to 1998, and no two tasks
\* share an id or a url.
C17_CatalogContents ==
    LET q == catalog.queue IN
    /\ \A k \in DOMAIN q :
          /\ ExamOf(q[k]) \in CatalogExams
          /\ NumberOf(q[k]) \in 1..25
          /\ q[k].url[1] = q[k].year
          /\ q[k].url[3] = NumberOf(q[k])
          /\ q[k].level = "AMC 8" =>
                q[k].url[2] = IF q[k].year <= 1998 THEN "AJHSME" ELSE "AMC_8"
    /\ Cardinality({ q[k].id : k \in DOMAIN q }) = Len(q)
    /\ Cardinality({ q[k].url : k \in DOMAIN q }) = Len(q)
    /\ catalog.loop = "done" =>
          /\ { <<ExamOf(q[k]), NumberOf(q[k])>> : k \in DOMAIN q } =
                CatalogExams \X (1..25)
          /\ Len(q) = 25 * Cardinality(CatalogExams)

\* The finished catalog, with problem 25 of the 1998 AJHSME and of the 1999
\* AMC 8 next to each other.
C17_Witness ==
    /\ catalog.loop = "done"
    /\ \E k \in DOMAIN catalog.queue :
          /\ ExamOf(catalog.queue[k]) = <<"AMC 8", 1999, "AMC 8">>
          /\ NumberOf(catalog.queue[k]) = 25
          /\ ExamOf(catalog.queue[k + 1]) = <<"AMC 8", 1998, "AJHSME">>
          /\ catalog.queue[k + 1].url = <<1998, "AJHSME", 1>>

FamilyRank(task) ==
    CASE task.level = "AMC 8" -> 1
      [] task.level = "AMC 10" -> 2
      [] task.level = "AMC 12" -> 3

VariantRank(task) ==
    IF task.examType \in { "AMC 10B", "AMC 12B" } THEN 2 ELSE 1

\* Family, then year descending, then variant, then problem number.
SortKey(task) ==
    <<FamilyRank(task), CURRENT_YEAR - task.year, VariantRank(task),
      NumberOf(task)>>

RECURSIVE LexLess(_, _)
LexLess(a, b) ==
    /\ a # <<>>
    /\ \/ Head(a) < Head(b)
       \/ Head(a) = Head(b) /\ LexLess(Tail(a), Tail(b))

\* C18: the catalog is the same at every call, and it is in order: by
\* family (AMC 8, AMC 10, AMC 12), then by year from CURRENT_YEAR down, then
\* A before B, then by problem number.
C18_CatalogOrder ==
    /\ \A k \in 1..(Len(catalog.queue) - 1) :
          LexLess(SortKey(catalog.queue[k]), SortKey(catalog.queue[k + 1]))
    /\ catalog.loop = "done" =>
          /\ catalog.queue = generateFullCatalogQueue
          /\ SortKey(catalog.queue[1]) = <<1, 0, 1, 1>>

\* The finished catalog, from the 2025 AMC 8 to the 2000 AMC 12, with a B
\* exam after the A exam of its year.
C18_Witness ==
    /\ catalog.loop = "done"
    /\ catalog.queue[1].id = <<2025, "amc8", 1>>
    /\ catalog.queue[Len(catalog.queue)].id = <<2000, "amc12", 25>>
    /\ \E k \in DOMAIN catalog.queue :
          /\ catalog.queue[k].id = <<2002, "amc10a", 25>>
          /\ catalog.queue[k + 1].id = <<2002, "amc10b", 1>>

\* C19: generateTestQueue returns, and what it returns is 10 tasks of the
\* full catalog, no two the same.
C19_TestQueue ==
    /\ <>(tpc = "done")
    /\ [](tpc = "done" =>
            /\ Cardinality(DOMAIN testQueue) = 10
            /\ \A j, k \in DOMAIN testQueue :
                  j # k => testQueue[j] # testQueue[k]
            /\ \A j \in DOMAIN testQueue :
                  \E k \in DOMAIN generateFullCatalogQueue :
                     generateFullCatalogQueue[k] = testQueue[j])

C19_Witness ==
    /\ tpc = "done"
    /\ Cardinality(indices) = 10
    /\ Cardinality({ testQueue[j].id : j \in DOMAIN testQueue }) = 10

\* ---------------------------------------- claims on cleanAndRestoreLatex

\* C21: cleanAndRestoreLatex applied to its own html output returns the same
\* html and the same images list as the first application did.
C21_Idempotent ==
    Len(cleaned) = 2 =>
       /\ cleaned[2].html = cleaned[1].html
       /\ cleaned[2].images = cleaned[1].images

\* The img elements a markup holds, at every depth, in document order.
RECURSIVE ImagesOf(_)
ImagesOf(html) ==
    Flatten([ k \in DOMAIN html |->
       SelectSeq(html[k].body, LAMBDA nd : nd.kind = "img")
          \o ImagesOf(html[k].kids) ])

\* An img that line 107 replaces by a span holding its alt text.
Replaceable(img) ==
    /\ img.cls \in { "latex", "latexcenter" }
    /\ img.alt # <<>>
    /\ Trim(img.alt)[1] # "[asy]"

\* The place of the first occurrence of a value in a sequence.
FirstPlace(s, v) == CHOOSE k \in DOMAIN s : s[k] = v /\ \A j \in 1..(k - 1) : s[j] # v

\* C22: the images list holds each source of the images left in the returned
\* html once, in the order of their first occurrence in the document, and
\* nothing else; an img replaced by its alt text is not among them.
C22_ImagesList ==
    Len(cleaned) >= 1 =>
       LET out == cleaned[1]
           left == ImagesOf(out.html)
           srcs == [ k \in DOMAIN left |-> left[k].src ]
           kept == SelectSeq(ImagesOf(rawHtml), LAMBDA img : ~Replaceable(img))
       IN  /\ { out.images[k] : k \in DOMAIN out.images } =
                 { srcs[k] : k \in DOMAIN srcs }
           /\ Len(out.images) = Cardinality({ srcs[k] : k \in DOMAIN srcs })
           /\ \A a, b \in DOMAIN out.images :
                 a < b => FirstPlace(srcs, out.images[a])
                            < FirstPlace(srcs, out.images[b])
           /\ Len(left) = Len(kept)
           /\ \A k \in DOMAIN left :
                 /\ left[k].alt = kept[k].alt
                 /\ ~Replaceable(left[k])

\* A markup with a replaced LaTeX image and two sources, one of them twice.
C22_Witness ==
    /\ Len(cleaned) >= 1
    /\ \E k \in DOMAIN rawHtml : \E j \in DOMAIN rawHtml[k].body :
          /\ rawHtml[k].body[j].kind = "img"
          /\ Replaceable(rawHtml[k].body[j])
    /\ Len(cleaned[1].images) = 2
    /\ Len(ImagesOf(cleaned[1].html)) = 3
    /\ ImagesOf(cleaned[1].html)[1].src = ImagesOf(cleaned[1].html)[3].src

\* -------------------------------------------- claims on retryWithBackoff

\* The errors the claim names as worth a retry.
Retriable(error) ==
    \/ error.status = 429
    \/ \E k \in DOMAIN error.message : error.message[k] \in { "429", "quota" }
    \/ error.status >= 500

RECURSIVE Doubled(_, _)
Doubled(base, k) == IF k = 1 THEN base ELSE 2 * Doubled(base, k - 1)

\* C24: retryWithBackoff calls fn at most retries+1 times and ends; it
\* returns the first success with no call after it, goes on after a failure
\* only while retries remain and the error is a rate limit or a server
\* error, waits delay*2^(k-1) before the k-th retry, and rethrows any other
\* error and the error of the last allowed call unchanged.
C24_BoundedRetries ==
    /\ <>(rpc \in { "returned", "thrown" })
    /\ [](/\ Len(attempts) <= firstCall.retries + 1
          /\ \A k \in 1..(Len(attempts) - 1) :
                /\ attempts[k].kind = "error"
                /\ Retriable(attempts[k].error)
          /\ \A k \in DOMAIN waited : waited[k] = Doubled(firstCall.delay, k)
          /\ Len(waited) = IF rpc = "call"
                             THEN Len(attempts) ELSE Len(attempts) - 1
          /\ rpc = "wait" => /\ attempts[Len(attempts)].kind = "error"
                             /\ Retriable(attempts[Len(attempts)].error)
                             /\ Len(attempts) <= firstCall.retries
          /\ rpc = "returned" => /\ attempts[Len(attempts)].kind = "value"
                                 /\ settledAs.kind = "value"
          /\ rpc = "thrown" =>
                /\ attempts[Len(attempts)].kind = "error"
                /\ settledAs = attempts[Len(attempts)]
                /\ \/ ~Retriable(settledAs.error)
                   \/ Len(attempts) = firstCall.retries + 1)

\* The default call whose four attempts all fail with errors worth a retry.
C24_Witness ==
    /\ firstCall.retries = 3
    /\ rpc = "thrown"
    /\ Len(attempts) = 4
    /\ waited = <<3000, 6000, 12000>>
    /\ IsServerErr(settledAs.error)

\* --------------------------------------- claims on parseJsonFromResponse

\* The place of the first and of the last occurrence of a character in a
\* text, 0 for none.
FirstAt(s, ch) ==
    IF \E k \in DOMAIN s : s[k] = ch
      THEN CHOOSE k \in DOMAIN s : s[k] = ch /\ \A j \in 1..(k - 1) : s[j] # ch
      ELSE 0

LastAt(s, ch) ==
    IF \E k \in DOMAIN s : s[k] = ch
      THEN CHOOSE k \in DOMAIN s : s[k] = ch /\ \A j \in (k + 1)..Len(s) : s[j] # ch
      ELSE 0

\* What parsing a text gives: its value, else the value of the repaired
\* text, else null.
ParsedOrNull(s) ==
    IF JsonParse(s).ok THEN JsonValue(JsonParse(s).value)
    ELSE IF JsonParse(Repair(s)).ok THEN JsonValue(JsonParse(Repair(s)).value)
    ELSE JsonNull

\* A sentence that follows the closing fence.
Sentence == <<SP, FENCE, SP, "w", SP, "w", SP, "w", ".">>

\* C29: parseJsonFromResponse returns a parsed value or null for every text.
\* With the fences removed it parses from the first '[' to the last ']' when
\* '[' comes before the first '{' or there is no '{', and from the first '{'
\* to the last '}' otherwise; an object between code fences with a sentence
\* after the closing fence comes back as that object.
C29_OutermostPair ==
    parsed.kind # "pending" =>
       LET s == CleanFences(responseText)
           open == FirstAt(s, "{")
           openArr == FirstAt(s, "[")
           arrayForm == openArr # 0 /\ (open = 0 \/ openArr < open)
       IN  /\ parsed.kind \in { "value", "null" }
           /\ responseText # <<>> /\ arrayForm /\ LastAt(s, "]") > openArr =>
                 parsed = ParsedOrNull(SubSeq(s, openArr, LastAt(s, "]")))
           /\ responseText # <<>> /\ ~arrayForm /\ open # 0
                 /\ LastAt(s, "}") > open =>
                 parsed = ParsedOrNull(SubSeq(s, open, LastAt(s, "}")))
           /\ \A o \in { <<FENCEJSON, SP>>, <<FENCE, SP>> } :
              \A b \in { b \in Payloads : b[1] = "{" } :
                 responseText = o \o b \o Sentence =>
                    parsed = JsonValue(JsonParse(b).value)

\* An object between code fences, followed by a sentence, has been parsed.
C29_Witness ==
    /\ parsed.kind = "value"
    /\ responseText[1] = FENCEJSON
    /\ \E k \in DOMAIN responseText : responseText[k] = FENCE
    /\ responseText[Len(responseText)] = "."
    /\ parsed.value[1] = <<"{">>
    /\ parsed.value[Len(parsed.value)] = <<"}">>

\* A string body with each backslash that starts no JSON escape doubled.
RECURSIVE Mended(_)
Mended(body) ==
    IF body = <<>> THEN body
    ELSE IF Head(body) = BS
      THEN IF Len(body) >= 2 /\ body[2] \in EscapeChars
             THEN <<BS, body[2]>> \o Mended(SubSeq(body, 3, Len(body)))
             ELSE <<BS, BS>> \o Mended(Tail(body))
    ELSE <<Head(body)>> \o Mended(Tail(body))

\* The bodies whose only defect is a single backslash before a character
\* that is no JSON escape.
OnlySingleBackslashes(body) ==
    /\ ~JsonParse(Quoted(body)).ok
    /\ JsonParse(Quoted(Mended(body))).ok

\* C30: a payload that fails the direct parse and whose only defect is single
\* backslashes is parsed after the repair pass, and a string that held no
\* JSON escape decodes to its characters, each backslash once.
C30_RepairRecovers ==
    parsed.kind # "pending" =>
       \A n \in 0..MaxChars : \A body \in [ 1..n -> StringChars ] :
          responseText = Quoted(body) /\ OnlySingleBackslashes(body) =>
             /\ parsed.kind = "value"
             /\ Mended(body) = DoubleBackslashes(body) =>
                   parsed.value[4] = <<"string">> \o body

\* ------------------- claims on fetchMockProblem and generateAIProblem

\* The fields of the payload a Problem cannot do without.
RequiredFields == { "questionHtml", "correctOption", "solutionHtml" }

\* A text that is no JSON, or whose payload lacks a required field.
Malformed(txt) ==
    \/ parseJsonFromResponse(txt).kind = "null"
    \/ \E f \in RequiredFields :
          Field(parseJsonFromResponse(txt).value, f) = Undefined

\* C26: a malformed answer makes the attempt of fetchMockProblem and of
\* generateAIProblem raise, and no Problem that is returned has an undefined
\* required field.
C26_MalformedFails ==
    produced.kind # "pending" =>
       /\ Malformed(answered) => produced.kind = "raised"
       /\ produced.kind = "problem" =>
             /\ produced.problem.questionHtml # Undefined
             /\ produced.problem.correctOption # Undefined
             /\ produced.problem.solutionHtml # Undefined

\* ------------------------------------ claims on generateExam's assembly

ExamEnded == epc \in { "returned", "rejected" }

TotalTasks == config.realCount + config.mockCount + config.aiCount

\* An archive slot is given up: the loop index moves on with no Problem found.
SlotGivenUp ==
    /\ epc = "real"
    /\ slot' = slot + 1
    /\ slotProblem = <<>>

\* The steps generateExam has left at most: the passes of the while loop
\* and the end of each archive slot, one step for each mock and AI slot,
\* the ends of the three loops and the grading.
StepsLeft ==
    LET inSlot == IF slot < config.realCount
                    THEN (MAX_ATTEMPTS - slotAttempts)
                           + (IF slotProblem = <<>> THEN 1 ELSE 0)
                    ELSE 0
        archive == (config.realCount - slot) * (MAX_ATTEMPTS + 2) + inSlot + 1
        mocks == config.mockCount + 1
        generated == config.aiCount + 1
    IN  CASE epc = "real" -> archive + mocks + generated + 1
          [] epc = "mock" -> (mocks - slot) + generated + 1
          [] epc = "ai" -> (generated - slot) + 1
          [] epc = "grade" -> 1
          [] OTHER -> 0

\* Before its end the function has a step to take: its position is one of
\* the loops, with the index within the bound, or the grading.
StepDue ==
    \/ ExamEnded
    \/ epc = "real" /\ slot <= config.realCount
    \/ epc = "mock" /\ slot <= config.mockCount
    \/ epc = "ai" /\ slot <= config.aiCount
    \/ epc = "grade"

\* C25: generateExam ends, and it ends by returning an exam, never by
\* failing: it is never stuck before its end and each of its steps brings
\* the end nearer, for each archive slot the while loop makes at most
\* MAX_ATTEMPTS passes, a slot is given up only after MAX_ATTEMPTS passes
\* that found a repeated url or no Problem, a mock or AI generation that
\* fails is passed over, and the exam has at most
\* realCount + mockCount + aiCount problems.
C25_ExamEnds ==
    /\ [](entry = "generateExam" =>
            /\ epc # "rejected"
            /\ StepDue
            /\ StepsLeft \in Nat
            /\ iterations <= MAX_ATTEMPTS
            /\ slotAttempts <= MAX_ATTEMPTS
            /\ Len(problems) <= TotalTasks)
    /\ [][entry = "generateExam" =>
            /\ StepsLeft' < StepsLeft
            /\ SlotGivenUp =>
                  iterations = MAX_ATTEMPTS /\ slotAttempts = MAX_ATTEMPTS]_vars

\* C28: the problems of one exam, of generateExam or of generateMiniQuiz,
\* have ids that differ pairwise, and no two archive problems of it have
\* the same originalUrl.
C28_UniqueIds ==
    \A j, k \in DOMAIN problems :
       j # k =>
          /\ problems[j].id # problems[k].id
          /\ (problems[j].source = "AOPS_ARCHIVE" /\ problems[k].source = "AOPS_ARCHIVE")
                => problems[j].originalUrl # problems[k].originalUrl

\* An exam is returned with two archive problems and a generated one, after
\* a url that was already used had been drawn again.
C28_Witness ==
    /\ epc = "returned"
    /\ entry = "generateExam"
    /\ Len(problems) = 3
    /\ Cardinality({ k \in DOMAIN problems : problems[k].source = "AOPS_ARCHIVE" }) = 2
    /\ Cardinality(generatedUrls) = 2

WholeDifficulties == { 10 * n : n \in 1..10 }

\* C23: the difficulty of every Problem is a whole number from 1 to 10 at
\* every moment: archive and mock problems are assembled with 5, and what
\* the estimate of the model, the grader or the warmup heuristic assigns is
\* clamped into 1..10.
C23_IntegerDifficulty ==
    /\ \A k \in DOMAIN problems :
          /\ problems[k].difficulty \in WholeDifficulties
          /\ (epc \in { "real", "mock", "ai" } /\ ~isWarmup
                /\ problems[k].source \in { "AOPS_ARCHIVE", "MOCK" })
               => problems[k].difficulty = 10 * PlaceholderDifficulty
    /\ \A k \in DOMAIN slotProblem :
          slotProblem[k].difficulty \in WholeDifficulties

\* ------------------------------------------ claims on the App handlers

Extends(before, after) ==
    /\ Len(before) <= Len(after)
    /\ SubSeq(after, 1, Len(before)) = before

\* C27: the hints and the solutionChat of every Problem are empty when the
\* exam is assembled, and under any interleaving of handleHint and
\* handleChat calls no step removes or changes an entry of either list:
\* each list after the step begins with the list before it.
C27_AppendOnly ==
    /\ [](issued = 0 =>
            \A k \in DOMAIN stateProblems :
               stateProblems[k].hints = <<>> /\ stateProblems[k].solutionChat = <<>>)
    /\ [][\A k \in DOMAIN stateProblems :
            /\ Extends(stateProblems[k].hints, stateProblems'[k].hints)
            /\ Extends(stateProblems[k].solutionChat,
                       stateProblems'[k].solutionChat)]_vars

\* ------------------------------------- claims on the difficulty bands

WordBands == [ Easy |-> 3, Medium |-> 5, Hard |-> 8, Extreme |-> 10 ]

\* The estimatedDifficulty of the payload the model answered with.
EstimateGiven == Field(parseJsonFromResponse(answered).value, "estimatedDifficulty")

\* C31: when the payload gives the estimated difficulty as one of the words
\* Easy, Medium, Hard, Extreme, generateAIProblem returns the Problem with
\* difficulty 3, 5, 8, 10; when the payload gives no estimate, the word of
\* the difficulty asked for is mapped the same way; a word that is none of
\* the four gives 5.
C31_WordBands ==
    (generator = "ai" /\ produced.kind = "problem") =>
       LET est == EstimateGiven
           given == IF IsString(est) THEN Tail(est[1]) ELSE <<>>
       IN  /\ (Len(given) = 1 /\ given[1] \in DOMAIN WordBands)
                => produced.problem.difficulty = 10 * WordBands[given[1]]
           /\ est = Undefined
                => produced.problem.difficulty = 10 * WordBands[requested]
           /\ (Len(given) = 1 /\ given[1] \notin DOMAIN WordBands)
                => produced.problem.difficulty = 10 * 5

\* The model answered the word Extreme where Easy was asked for.
C31_Witness ==
    /\ generator = "ai"
    /\ produced.kind = "problem"
    /\ requested = "Easy"
    /\ EstimateGiven = Str(<<"Extreme">>)
    /\ produced.problem.difficulty = 100

\* --------------------------------------- claims on grading and order

Sorted(list) ==
    \A j, k \in DOMAIN list : j < k => list[j].difficulty <= list[k].difficulty

\* gradeProblemsByDifficulty got past its request and returns.
GradingReturns ==
    /\ epc \in { "grade", "quiz" }
    /\ epc' = "returned"
    /\ graderAnswer' # NoAnswer

\* The entries of the grades that name the id and hold a number.
NumericGrades(id, grades) ==
    { k \in DOMAIN grades : grades[k].id = id /\ IsNum(grades[k].difficulty) }

Clamped(tenths) == IF tenths < 10 THEN 10 ELSE IF tenths > 100 THEN 100 ELSE tenths

\* C32: an exam generateExam returns with at least one problem is in
\* non-decreasing order of difficulty; what gradeProblemsByDifficulty returns
\* is sorted and holds each problem of its input once and no other, each
\* with all fields but difficulty as they were; the difficulty is the
\* clamped number of the grade that names the problem's id, and is as it was
\* for a problem no numeric grade names, so for every problem when the
\* request failed or gave no array.
C32_SortedPermutation ==
    /\ []((epc = "returned" /\ entry = "generateExam" /\ problems # <<>>)
            => Sorted(problems))
    /\ [][GradingReturns =>
            /\ Sorted(problems')
            /\ Len(problems') = Len(problems)
            /\ \A k \in DOMAIN problems :
                 \E j \in DOMAIN problems' :
                    /\ problems'[j].id = problems[k].id
                    /\ \A other \in DOMAIN problems' :
                          problems'[other].id = problems[k].id => other = j
                    /\ [ problems'[j] EXCEPT !.difficulty = 0 ]
                          = [ problems[k] EXCEPT !.difficulty = 0 ]
                    /\ LET grades == graderAnswer'.grades
                           hits == NumericGrades(problems[k].id, grades)
                       IN  IF hits = {}
                             THEN problems'[j].difficulty = problems[k].difficulty
                             ELSE \E last \in hits :
                                    /\ \A h \in hits : h <= last
                                    /\ problems'[j].difficulty =
                                         Clamped(Tenths(grades[last].difficulty))]_vars

\* The grades put the AI problem, assembled last, before the archive problem.
C32_Witness ==
    /\ epc = "returned"
    /\ entry = "generateExam"
    /\ graderAnswer.answer = "array"
    /\ Len(problems) = 2
    /\ problems[1].source = "AI_GENERATED"
    /\ problems[2].source = "AOPS_ARCHIVE"
    /\ problems[1].difficulty < problems[2].difficulty

\* ------------------------------------- claims on the warmup heuristic

\* The least whole number that is at least n * 10 / 25.
CeilOfTenTwentyFifths(n) ==
    CHOOSE d \in 0..10 : 25 * d >= 10 * n /\ 25 * (d - 1) < 10 * n

\* The problem number the url of an archive problem names.
NumberFetched(problem) == problem.originalUrl[3]

\* C34: in warmup mode every archive problem generateExam found has the
\* difficulty ceil(problemNum * 10 / 25) of the problem number of the page
\* that was fetched for it; over the numbers 1..25 that value is within
\* 1..10, never decreases as the number grows, is 1 for the problems 1 and 2
\* and 10 for the problems 23 to 25.
C34_WarmupHeuristic ==
    /\ \A k \in DOMAIN problems :
          problems[k].source = "AOPS_ARCHIVE" =>
             /\ NumberFetched(problems[k]) \in ProblemNums
             /\ problems[k].difficulty =
                   10 * CeilOfTenTwentyFifths(NumberFetched(problems[k]))
    /\ \A k \in DOMAIN slotProblem :
          slotProblem[k].difficulty =
             10 * CeilOfTenTwentyFifths(NumberFetched(slotProblem[k]))
    /\ \A n \in ProblemNums :
          /\ CeilOfTenTwentyFifths(n) \in 1..10
          /\ n < 25 => CeilOfTenTwentyFifths(n) <= CeilOfTenTwentyFifths(n + 1)
          /\ n \in { 1, 2 } => CeilOfTenTwentyFifths(n) = 1
          /\ n \in { 23, 24, 25 } => CeilOfTenTwentyFifths(n) = 10

\* A warmup exam is returned with problem 3 at difficulty 2 before problem 23
\* at difficulty 10.
C34_Witness ==
    /\ epc = "returned"
    /\ isWarmup
    /\ Len(problems) = 2
    /\ \A k \in DOMAIN problems : problems[k].source = "AOPS_ARCHIVE"
    /\ NumberFetched(problems[1]) = 3 /\ problems[1].difficulty = 20
    /\ NumberFetched(problems[2]) = 23 /\ problems[2].difficulty = 100

\* --------------------------------------- claims on the stats snapshots

\* The snapshots reported so far for the task at hand and the last one
\* reported for the task before it.
Snapshots ==
    { taskCalls[k].stats : k \in DOMAIN taskCalls }
       \cup (IF lastDone = NoCall THEN {} ELSE { lastDone.stats })

\* C33: in every snapshot processPrefetchQueue reports, success + failed is
\* at most the number of tasks whose fetch was started and at most total,
\* and failed counts no task whose fetch returned a Problem; so also when
\* the onProgress callback raises in a post-attempt report.
C33_SnapshotBounds ==
    \A s \in Snapshots :
       /\ s.success + s.failed <= Len(fetched)
       /\ s.success + s.failed <= s.total
       /\ s.failed <= settled["null"] + settled["raise"]

\* ------------------------------------------------- claims on the exam view

\* C35: whenever the application is in the EXAM view, currentProblemIndex
\* is at least 0 and below problems.length, after any Next and Previous
\* clicks and for every result of the generation, the empty one included.
C35_IndexInRange ==
    view = "EXAM" =>
       /\ 0 <= currentProblemIndex
       /\ currentProblemIndex < Len(stateProblems)

\* handleAnswer was called for the problem: it was submitted or given up.
Answered(problem) == problem.userAnswer # Undefined

\* C36: in Instant and Warmup modes the review (correct answer, solution)
\* of the problem on screen is shown only after that problem was submitted
\* or given up, and a problem not yet answered is shown unlocked: nothing
\* selected, not submitted, not skipped, whatever was done on the others.
C36_PerProblemLock ==
    /\ []((ExamShown /\ examMode \in { INSTANT, WARMUP } /\ submittedInstant)
            => Answered(CurrentProblem))
    /\ [][(/\ ExamShown /\ examMode \in { INSTANT, WARMUP }
           /\ currentProblemIndex' # currentProblemIndex
           /\ ~Answered(stateProblems'[currentProblemIndex' + 1]))
          => (selected' = Undefined /\ ~submittedInstant' /\ ~skipped')]_vars

\* C37: in a countdown mode secondsLeft goes down by 1 per tick and never
\* below 0, onExpire is invoked when it reaches 0, and at most once per
\* exam, also when App renders again and passes a new onExpire.
C37_ExpiresOnce ==
    /\ [](secondsLeft >= 0 /\ expired <= 1)
    /\ [][view = "EXAM" =>
            \/ secondsLeft' = secondsLeft
            \/ secondsLeft' = secondsLeft - 1]_vars
    /\ [][(secondsLeft > 0 /\ secondsLeft' = 0) => expired' = expired + 1]_vars

\* C38: for every problem with a submitted letter, isCorrect is recorded
\* true exactly when the review shows the answer as correct (the letter
\* equals the trimmed, upper-cased correctOption), and a problem answered
\* "SKIPPED" is never recorded as correct.
C38_RecordedAsDisplayed ==
    \A k \in DOMAIN stateProblems :
       LET problem == stateProblems[k]
       IN  /\ problem.userAnswer \in Labels =>
                (problem.isCorrect <=> problem.userAnswer = CorrectOpt(problem))
           /\ problem.userAnswer = SKIPPED => ~problem.isCorrect

====
